---- MODULE Spec2Model ----
(***************************************************************************)
(* A model of marked-yaml's serde bridge (src/marked-yaml/src/             *)
(* spanned_serde.rs): the per-kind node deserializers, the three cursors   *)
(* (MappingAccess, SequenceAccess, SpannedDeserializer), the Spanned<T>    *)
(* visitor, the Error type and from_node with its serde-path backfill.     *)
(*                                                                         *)
(* Strings that the code inspects character by character (scalar texts,    *)
(* mapping keys, field names) are sequences of one-character strings, so   *)
(* that str::parse can be computed digit by digit.                         *)
(***************************************************************************)
EXTENDS Integers, Sequences, FiniteSets, TLC

(***************************************************************************)
(* Option<T>: None is the empty sequence, Some(x) the one-element sequence *)
(***************************************************************************)
None == <<>>
Some(x) == <<x>>
IsSome(o) == Len(o) = 1
IsNone(o) == Len(o) = 0
Unwrap(o) == o[1]

(***************************************************************************)
(* Marker and Span (crate::Marker, crate::Span)                            *)
(***************************************************************************)
MarkerNew(source, line, column) == [source |-> source, line |-> line, column |-> column]

SpanNewBlank == [start |-> None, end |-> None]
SpanSetStart(span, start) == [span EXCEPT !.start = start]
SpanSetEnd(span, end) == [span EXCEPT !.end = end]

\* The four shapes a span can have.
SpanShapes == {"blank", "start", "end", "both"}
ShapeOf(span) ==
    IF IsSome(span.start)
    THEN (IF IsSome(span.end) THEN "both" ELSE "start")
    ELSE (IF IsSome(span.end) THEN "end" ELSE "blank")

\* A span of the given shape anchored at (line, column) of source 0; the
\* end marker, when present, lies `width` columns further on.
Sp(shape, line, column, width) ==
    [start |-> IF shape \in {"start", "both"}
               THEN Some(MarkerNew(0, line, column)) ELSE None,
     end   |-> IF shape \in {"end", "both"}
               THEN Some(MarkerNew(0, line, column + width)) ELSE None]

(***************************************************************************)
(* Nodes (crate::Node and the three marked node types)                     *)
(***************************************************************************)
Scalar(span, text) ==
    [kind |-> "Scalar", span |-> span, text |-> text, items |-> <<>>, entries |-> <<>>]
Sequence(span, items) ==
    [kind |-> "Sequence", span |-> span, text |-> <<>>, items |-> items, entries |-> <<>>]
Mapping(span, entries) ==
    [kind |-> "Mapping", span |-> span, text |-> <<>>, items |-> <<>>, entries |-> entries]
Entry(k, v) == [k |-> k, v |-> v]

\* Node::as_sequence / Node::as_mapping
AsSequence(node) == IF node.kind = "Sequence" THEN Some(node.items) ELSE None
AsMapping(node) == IF node.kind = "Mapping" THEN Some(node.entries) ELSE None

\* slice::get: zero-based, None when out of range
SeqGet(items, index) ==
    IF index >= 0 /\ index < Len(items) THEN Some(items[index + 1]) ELSE None

\* LinkedHashMap::get by key text: keys are unique, the entry whose key
\* scalar has that text
MapGet(entries, key) ==
    IF \E i \in 1..Len(entries) : entries[i].k.text = key
    THEN Some(entries[CHOOSE i \in 1..Len(entries) : entries[i].k.text = key].v)
    ELSE None

(***************************************************************************)
(* Text: str::parse for the integer and float types, to_string, as_bool    *)
(***************************************************************************)
DigitChars == <<"0", "1", "2", "3", "4", "5", "6", "7", "8", "9">>
IsDigit(c) == \E i \in 1..10 : DigitChars[i] = c
DigitVal(c) == (CHOOSE i \in 1..10 : DigitChars[i] = c) - 1

ParseOk(i) == [ok |-> TRUE, i |-> i, kind |-> "none"]
ParseErr(kind) == [ok |-> FALSE, i |-> 0, kind |-> kind]

\* The digit loop of from_str_radix: each digit is validated, then the
\* accumulator is multiplied and the digit added (or subtracted), each
\* step checked against the range of the type.
RECURSIVE ParseDigits(_, _, _, _, _, _)
ParseDigits(digits, k, acc, positive, lo, hi) ==
    IF k > Len(digits) THEN ParseOk(acc)
    ELSE IF ~IsDigit(digits[k]) THEN ParseErr("InvalidDigit")
    ELSE LET mul == acc * 10
             nxt == IF positive THEN mul + DigitVal(digits[k])
                                ELSE mul - DigitVal(digits[k])
         IN  IF positive
             THEN (IF mul > hi \/ nxt > hi THEN ParseErr("PosOverflow")
                   ELSE ParseDigits(digits, k + 1, nxt, positive, lo, hi))
             ELSE (IF mul < lo \/ nxt < lo THEN ParseErr("NegOverflow")
                   ELSE ParseDigits(digits, k + 1, nxt, positive, lo, hi))

\* from_str as if an out-of-range numeral wrapped around into the range
ParseIntWrapping(text, signed, lo, hi) ==
    LET wide == IF Len(text) > 1 /\ text[1] = "-"
                THEN ParseDigits(Tail(text), 1, 0, FALSE, -1000000, 1000000)
                ELSE ParseDigits(text, 1, 0, TRUE, -1000000, 1000000)
    IN  IF wide.ok THEN ParseOk(lo + ((wide.i - lo) % (hi - lo + 1))) ELSE wide

\* <integer type>::from_str
ParseInt(text, signed, lo, hi) ==
    IF Len(text) = 0 THEN ParseErr("Empty")
    ELSE IF Len(text) = 1 /\ text[1] \in {"+", "-"} THEN ParseErr("InvalidDigit")
    ELSE IF text[1] = "+" THEN ParseDigits(Tail(text), 1, 0, TRUE, lo, hi)
    ELSE IF text[1] = "-" /\ signed THEN ParseDigits(Tail(text), 1, 0, FALSE, lo, hi)
    ELSE ParseDigits(text, 1, 0, TRUE, lo, hi)

\* The integer types of the model: u8, i8, u16, i16 and usize (usize only
\* for the span coordinates, which are never parsed from text).  The wider
\* types are further instances of the same macro; their ranges lie beyond
\* the integers TLC computes with.
IntTypes == {"U8", "I8", "U16", "I16"}
IntSigned(t) == t \in {"I8", "I16"}
IntLo(t) == CASE t = "I8" -> -128 [] t = "I16" -> -32768 [] OTHER -> 0
IntHi(t) == CASE t = "I8" -> 127 [] t = "I16" -> 32767 [] t = "U16" -> 65535 [] OTHER -> 255
ParseIntAs(text, t) == ParseInt(text, IntSigned(t), IntLo(t), IntHi(t))

\* f64::from_str on texts made of sign, digits and one decimal point (the
\* texts of the model hold no exponent and no inf/nan spelling): the value
\* is kept exactly, as sign, integer mantissa and count of fraction digits
\* with trailing fraction zeros dropped.
RECURSIVE DigitsValue(_, _, _)
DigitsValue(digits, k, acc) ==
    IF k > Len(digits) THEN acc
    ELSE DigitsValue(digits, k + 1, acc * 10 + DigitVal(digits[k]))

RECURSIVE FloatNorm(_, _)
FloatNorm(mant, frac) ==
    IF frac > 0 /\ mant % 10 = 0 THEN FloatNorm(mant \div 10, frac - 1)
    ELSE [mant |-> mant, frac |-> frac]

ParseFloat(text) ==
    LET signedTxt == Len(text) > 0 /\ text[1] \in {"+", "-"}
        neg  == Len(text) > 0 /\ text[1] = "-"
        body == IF signedTxt THEN Tail(text) ELSE text
        dots == {i \in 1..Len(body) : body[i] = "."}
        okCh == \A i \in 1..Len(body) : IsDigit(body[i]) \/ body[i] = "."
        dot  == IF dots = {} THEN Len(body) + 1 ELSE CHOOSE i \in dots : TRUE
        digs == [i \in 1..(Len(body) - (IF dots = {} THEN 0 ELSE 1)) |->
                    IF i < dot THEN body[i] ELSE body[i + 1]]
        frac == IF dots = {} THEN 0 ELSE Len(body) - dot
        n    == FloatNorm(DigitsValue(digs, 1, 0), frac)
    IN  IF Len(text) = 0 THEN [ok |-> FALSE, neg |-> FALSE, mant |-> 0, frac |-> 0, kind |-> "Empty"]
        ELSE IF ~okCh \/ Cardinality(dots) > 1 \/ Len(digs) = 0
        THEN [ok |-> FALSE, neg |-> FALSE, mant |-> 0, frac |-> 0, kind |-> "Invalid"]
        ELSE [ok |-> TRUE, neg |-> neg, mant |-> n.mant, frac |-> n.frac, kind |-> "none"]

\* <unsigned integer>::to_string, as far as the model's integers go
RECURSIVE NatToString(_)
NatToString(n) ==
    IF n < 10 THEN <<DigitChars[n + 1]>>
    ELSE Append(NatToString(n \div 10), DigitChars[(n % 10) + 1])
IntToString(n) == IF n < 0 THEN <<"-">> \o NatToString(0 - n) ELSE NatToString(n)

TrueSpellings == {<<"t", "r", "u", "e">>, <<"T", "r", "u", "e">>, <<"T", "R", "U", "E">>}
FalseSpellings ==
    {<<"f", "a", "l", "s", "e">>, <<"F", "a", "l", "s", "e">>, <<"F", "A", "L", "S", "E">>}

\* MarkedScalarNode::as_bool
AsBool(text) ==
    IF text \in TrueSpellings THEN Some(TRUE)
    ELSE IF text \in FalseSpellings THEN Some(FALSE)
    ELSE None

(***************************************************************************)
(* The reserved identifiers of the span-smuggling protocol                 *)
(***************************************************************************)
SPANNED_TYPE == <<"$___::marked_data::serde::Spanned<T>">>
SPANNED_SPAN_START_SOURCE == <<"$___::marked_data::serde::Spanned<T>::span_start_source">>
SPANNED_SPAN_START_LINE == <<"$___::marked_data::serde::Spanned<T>::span_start_line">>
SPANNED_SPAN_START_COLUMN == <<"$___::marked_data::serde::Spanned<T>::span_start_column">>
SPANNED_SPAN_END_SOURCE == <<"$___::marked_data::serde::Spanned<T>::span_end_source">>
SPANNED_SPAN_END_LINE == <<"$___::marked_data::serde::Spanned<T>::span_end_line">>
SPANNED_SPAN_END_COLUMN == <<"$___::marked_data::serde::Spanned<T>::span_end_column">>
SPANNED_INNER == <<"$___::marked_data::serde::Spanned<T>::inner">>

SPANNED_FIELDS ==
    <<SPANNED_SPAN_START_SOURCE, SPANNED_SPAN_START_LINE, SPANNED_SPAN_START_COLUMN,
      SPANNED_SPAN_END_SOURCE, SPANNED_SPAN_END_LINE, SPANNED_SPAN_END_COLUMN,
      SPANNED_INNER>>

(***************************************************************************)
(* Error                                                                   *)
(*   kind      the variant                                                 *)
(*   msg       the parse diagnostic or the custom message                  *)
(*   field, expected   the payload of UnknownFieldError                    *)
(*   span      the span                                                    *)
(*   sets      history: how many times set_span was applied to this value  *)
(*   origin    history: the span of the node whose deserializer gave the   *)
(*             error its span where it was raised, None when none did      *)
(***************************************************************************)
ErrorNotBoolean(span) ==
    [kind |-> "NotBoolean", msg |-> "", field |-> <<>>, expected |-> <<>>,
     span |-> span, sets |-> 0, origin |-> Some(span)]

\* <Error as serde::de::Error>::custom
ErrorCustom(msg) ==
    [kind |-> "Other", msg |-> msg, field |-> <<>>, expected |-> <<>>,
     span |-> SpanNewBlank, sets |-> 0, origin |-> None]

\* <Error as serde::de::Error>::unknown_field
ErrorUnknownField(field, expected) ==
    [kind |-> "UnknownFieldError", msg |-> "", field |-> field, expected |-> expected,
     span |-> SpanNewBlank, sets |-> 0, origin |-> None]

\* From<ParseIntError>, From<ParseFloatError>
ErrorFromParseInt(diag) ==
    [kind |-> "IntegerParseFailure", msg |-> diag, field |-> <<>>, expected |-> <<>>,
     span |-> SpanNewBlank, sets |-> 0, origin |-> None]
ErrorFromParseFloat(diag) ==
    [kind |-> "FloatParseFailure", msg |-> diag, field |-> <<>>, expected |-> <<>>,
     span |-> SpanNewBlank, sets |-> 0, origin |-> None]

\* SetSpan rebuilding the error from its span alone, the message lost
SetSpanLosesMessage(e, span) == [e EXCEPT !.span = span, !.sets = @ + 1, !.msg = ""]

\* Error::set_span
SetSpan(e, span) == [e EXCEPT !.span = span, !.sets = @ + 1]

\* StartMark reading the other marker of the span
StartMarkOfEnd(e) == e.span.end

\* Error::start_mark
StartMark(e) == e.span.start

\* AddSpans with the span left off the error
AddSpansDropped(e, span) == [e EXCEPT !.origin = Some(span)]

\* AddSpans::addspans, on the Err side of the Result
AddSpans(e, span) == [SetSpan(e, span) EXCEPT !.origin = Some(span)]

\* What an error is apart from its span: kind and payload.
ErrorPayload(e) == [kind |-> e.kind, msg |-> e.msg, field |-> e.field, expected |-> e.expected]

(***************************************************************************)
(* Results of a decode.  A failure carries the path serde_path_to_error    *)
(* has recorded for it (the chain of the innermost tracked deserializer    *)
(* the error passed through); the plain build never looks at it.           *)
(***************************************************************************)
Ok(v) == [ok |-> TRUE, panic |-> FALSE, val |-> v]
Fail(e, path) == [ok |-> FALSE, panic |-> FALSE, err |-> e, path |-> path]
Panic(msg) == [ok |-> FALSE, panic |-> TRUE, msg |-> msg]

SegMap(key) == [seg |-> "Map", key |-> key, index |-> 0]
SegSeq(index) == [seg |-> "Seq", key |-> <<>>, index |-> index]
SegEnum == [seg |-> "Enum", key |-> <<>>, index |-> 0]
SegUnknown == [seg |-> "Unknown", key |-> <<>>, index |-> 0]

(***************************************************************************)
(* Decoded values                                                          *)
(***************************************************************************)
VInt(i) == [t |-> "int", i |-> i]
VFloat(neg, mant, frac) == [t |-> "float", neg |-> neg, mant |-> mant, frac |-> frac]
VBool(b) == [t |-> "bool", b |-> b]
VStr(s) == [t |-> "str", s |-> s]
VUnit == [t |-> "unit"]
VSeq(items) == [t |-> "seq", items |-> items]
VMap(pairs) == [t |-> "map", pairs |-> pairs]
VStruct(fields) == [t |-> "struct", fields |-> fields]
VSome(v) == [t |-> "some", v |-> v]
VNone == [t |-> "none"]
VField(index) == [t |-> "field", index |-> index]
\* Spanned::new
SpannedNew(span, inner) == [t |-> "spanned", span |-> span, inner |-> inner]

(***************************************************************************)
(* Target types (the caller's Deserialize implementations)                 *)
(***************************************************************************)
TU8 == [t |-> "U8"]
TI8 == [t |-> "I8"]
TU16 == [t |-> "U16"]
TI16 == [t |-> "I16"]
TUsize == [t |-> "Usize"]
TF64 == [t |-> "F64"]
TBool == [t |-> "Bool"]
TString == [t |-> "String"]
TStr == [t |-> "Str"]
TIgnoredAny == [t |-> "IgnoredAny"]
TVec(elem) == [t |-> "Vec", elem |-> elem]
TOption(elem) == [t |-> "Option", elem |-> elem]
TSpanned(elem) == [t |-> "Spanned", elem |-> elem]
TMap(key, val) == [t |-> "Map", key |-> key, val |-> val]
Field(name, ty) == [name |-> name, ty |-> ty]
TStruct(name, fields, deny) == [t |-> "Struct", name |-> name, fields |-> fields, deny |-> deny]
FieldNames(ty) == [i \in 1..Len(ty.fields) |-> ty.fields[i].name]
\* The field identifier type serde_derive generates for a struct.
TField(ty) == [t |-> "Field", names |-> FieldNames(ty), deny |-> ty.deny]

(***************************************************************************)
(* The cursors.  A cursor value stands for the MapAccess or SeqAccess the  *)
(* code builds together with the path-tracking wrapper around it, whose    *)
(* only state is `captured`, the key text seen by the last key request     *)
(* (taken by the next value request to name the path segment).             *)
(***************************************************************************)

\* SpannedDeserializer::new: the initial state
\* The initial state as if new() tested the end marker before the start
SpannedInitialStateEndFirst(span) ==
    IF IsSome(span.end) THEN "SendEndSource"
    ELSE IF IsSome(span.start) THEN "SendStartSource"
    ELSE "SendValue"

\* The initial state as if new() always began with the start marker
SpannedInitialStateAlwaysStart(span) == "SendStartSource"

SpannedInitialState(span) ==
    IF IsSome(span.start) THEN "SendStartSource"
    ELSE IF IsSome(span.end) THEN "SendEndSource"
    ELSE "SendValue"

SpannedDeserializerNew(node) ==
    [acc |-> "Spanned", node |-> node, state |-> SpannedInitialState(node.span),
     captured |-> None]

\* The key next_key_seed yields in each state; None in Done
\* SpannedKey as if the end source went out under the start source's name
SpannedKeyEndAsStart(state) ==
    CASE state \in {"SendStartSource", "SendEndSource"} -> Some(SPANNED_SPAN_START_SOURCE)
      [] state = "SendStartLine"   -> Some(SPANNED_SPAN_START_LINE)
      [] state = "SendStartColumn" -> Some(SPANNED_SPAN_START_COLUMN)
      [] state = "SendEndLine"     -> Some(SPANNED_SPAN_END_LINE)
      [] state = "SendEndColumn"   -> Some(SPANNED_SPAN_END_COLUMN)
      [] state = "SendValue"       -> Some(SPANNED_INNER)
      [] state = "Done"            -> None

SpannedKey(state) ==
    CASE state = "SendStartSource" -> Some(SPANNED_SPAN_START_SOURCE)
      [] state = "SendStartLine"   -> Some(SPANNED_SPAN_START_LINE)
      [] state = "SendStartColumn" -> Some(SPANNED_SPAN_START_COLUMN)
      [] state = "SendEndSource"   -> Some(SPANNED_SPAN_END_SOURCE)
      [] state = "SendEndLine"     -> Some(SPANNED_SPAN_END_LINE)
      [] state = "SendEndColumn"   -> Some(SPANNED_SPAN_END_COLUMN)
      [] state = "SendValue"       -> Some(SPANNED_INNER)
      [] state = "Done"            -> None

\* SpannedNextState with the test of the end marker after the start column
\* left out
SpannedNextStateNoEndTest(state, span) ==
    CASE state = "SendStartSource" -> "SendStartLine"
      [] state = "SendStartLine"   -> "SendStartColumn"
      [] state = "SendStartColumn" -> "SendEndSource"
      [] state = "SendEndSource"   -> "SendEndLine"
      [] state = "SendEndLine"     -> "SendEndColumn"
      [] state = "SendEndColumn"   -> "SendValue"
      [] state = "SendValue"       -> "Done"
      [] state = "Done"            -> "Done"

\* The state next_value_seed moves to from each state
SpannedNextState(state, span) ==
    CASE state = "SendStartSource" -> "SendStartLine"
      [] state = "SendStartLine"   -> "SendStartColumn"
      [] state = "SendStartColumn" ->
            IF IsSome(span.end) THEN "SendEndSource" ELSE "SendValue"
      [] state = "SendEndSource"   -> "SendEndLine"
      [] state = "SendEndLine"     -> "SendEndColumn"
      [] state = "SendEndColumn"   -> "SendValue"
      [] state = "SendValue"       -> "Done"
      [] state = "Done"            -> "Done"

\* The coordinate next_value_seed reads in each of the six coordinate
\* states: None where the code's expect() would abort.
SpannedCoordinate(state, span) ==
    CASE state = "SendStartSource" ->
            IF IsSome(span.start) THEN Some(Unwrap(span.start).source) ELSE None
      [] state = "SendStartLine" ->
            IF IsSome(span.start) THEN Some(Unwrap(span.start).line) ELSE None
      [] state = "SendStartColumn" ->
            IF IsSome(span.start) THEN Some(Unwrap(span.start).column) ELSE None
      [] state = "SendEndSource" ->
            IF IsSome(span.end) THEN Some(Unwrap(span.end).source) ELSE None
      [] state = "SendEndLine" ->
            IF IsSome(span.end) THEN Some(Unwrap(span.end).line) ELSE None
      [] state = "SendEndColumn" ->
            IF IsSome(span.end) THEN Some(Unwrap(span.end).column) ELSE None

CoordinateStates ==
    {"SendStartSource", "SendStartLine", "SendStartColumn",
     "SendEndSource", "SendEndLine", "SendEndColumn"}
StartStates == {"SendStartSource", "SendStartLine", "SendStartColumn"}

\* MappingAccess::new: `at` is how many entries the iterator has passed
\* MappingAccess::new as if the cursor iterated from the last entry
MappingAccessNewReversed(entries) ==
    [acc |-> "Mapping",
     entries |-> [i \in 1..Len(entries) |-> entries[Len(entries) + 1 - i]],
     at |-> 0, captured |-> None]

MappingAccessNew(entries) ==
    [acc |-> "Mapping", entries |-> entries, at |-> 0, captured |-> None]

\* SequenceAccess::new
\* SequenceAccess::new as if the cursor held the items last to first
SequenceAccessNewReversed(items) ==
    [items |-> [i \in 1..Len(items) |-> items[Len(items) + 1 - i]], pos |-> 0]

\* SequenceAccess::new
SequenceAccessNew(items) == [items |-> items, pos |-> 0]

\* The path segment of a value or of a failed key: the captured key text,
\* or Unknown when the key request captured none.
KeySeg(captured) == IF IsSome(captured) THEN SegMap(Unwrap(captured)) ELSE SegUnknown

\* What the wrapper captures while a key scalar is decoded as keyTy: the
\* text handed to visit_str, the printed integer handed to visit_u8 or
\* visit_i8, the printed boolean handed to visit_bool; nothing when the
\* decoder fails before it visits, or visits a map.
KeyCapture(keyTy, text) ==
    CASE keyTy.t \in IntTypes ->
            LET p == ParseIntAs(text, keyTy.t)
            IN  IF p.ok THEN Some(IntToString(p.i)) ELSE None
      [] keyTy.t = "Bool" ->
            LET b == AsBool(text)
            IN  IF IsSome(b) THEN Some(IF Unwrap(b) THEN <<"t", "r", "u", "e">>
                                      ELSE <<"f", "a", "l", "s", "e">>)
                ELSE None
      [] keyTy.t = "Spanned" -> None
      [] keyTy.t = "Struct" ->
            IF keyTy.name = SPANNED_TYPE /\ FieldNames(keyTy) = SPANNED_FIELDS
            THEN None ELSE Some(text)
      [] keyTy.t \in {"String", "Str", "Field", "IgnoredAny", "Vec", "Map"} -> Some(text)

(***************************************************************************)
(* Visitors on primitive input                                             *)
(***************************************************************************)

\* What the visitor of `ty` answers to visit_str (borrowed = FALSE) or to
\* visit_borrowed_str (borrowed = TRUE)
VisitStr(ty, text, borrowed, chain) ==
    CASE ty.t = "String" -> Ok(VStr(text))
      [] ty.t = "Str" ->
            IF borrowed THEN Ok(VStr(text)) ELSE Fail(ErrorCustom("invalid type"), chain)
      [] ty.t = "IgnoredAny" -> Ok(VUnit)
      [] ty.t = "Field" ->
            IF \E i \in 1..Len(ty.names) : ty.names[i] = text
            THEN Ok(VField(CHOOSE i \in 1..Len(ty.names) : ty.names[i] = text))
            ELSE IF ty.deny THEN Fail(ErrorUnknownField(text, ty.names), chain)
            ELSE Ok(VField(0))
      [] OTHER -> Fail(ErrorCustom("invalid type"), chain)

\* seed.deserialize(v.into_deserializer()) for a usize coordinate: the
\* visitor of `ty` answers visit_u64
DeserializeUsize(v, ty, chain) ==
    CASE ty.t = "Usize" -> Ok(VInt(v))
      [] ty.t \in IntTypes ->
            IF v >= IntLo(ty.t) /\ v <= IntHi(ty.t) THEN Ok(VInt(v))
            ELSE Fail(ErrorCustom("invalid value"), chain)
      [] ty.t = "F64" -> Ok(VFloat(FALSE, v, 0))
      [] ty.t = "IgnoredAny" -> Ok(VUnit)
      [] OTHER -> Fail(ErrorCustom("invalid type"), chain)

\* scalar_fromstr!: parse, addspans on failure, then visit
ScalarFromStr(node, ty, chain) ==
    IF ty.t = "F64"
    THEN LET p == ParseFloat(node.text)
         IN  IF p.ok THEN Ok(VFloat(p.neg, p.mant, p.frac))
             ELSE Fail(AddSpans(ErrorFromParseFloat(p.kind), node.span), chain)
    ELSE LET p == ParseIntAs(node.text, ty.t)
         IN  IF p.ok THEN Ok(VInt(p.i))
             ELSE Fail(AddSpans(ErrorFromParseInt(p.kind), node.span), chain)

\* deserialize_bool as if the scalar deserializer forwarded it to
\* deserialize_any, as the mapping and sequence deserializers do: the bool
\* visitor is handed a string
ScalarDeserializeBoolAsAny(node, chain) == Fail(ErrorCustom("invalid type"), chain)

\* MarkedScalarNodeDeserializer::deserialize_bool
ScalarDeserializeBool(node, chain) ==
    LET b == AsBool(node.text)
    IN  IF IsSome(b) THEN Ok(VBool(Unwrap(b)))
        ELSE Fail(ErrorNotBoolean(node.span), chain)

\* Equality as if PartialEq were derived for Spanned: span and inner both
KeyEqDerived(a, b) == a = b

\* Equality of decoded values (of map keys among them): Spanned values
\* compare by their inner value (PartialEq for Spanned<T>), sequences
\* element by element, options by what they hold, everything else by value
RECURSIVE KeyEq(_, _)
KeyEq(a, b) ==
    IF a.t = "spanned" /\ b.t = "spanned" THEN KeyEq(a.inner, b.inner)
    ELSE IF a.t = "seq" /\ b.t = "seq"
    THEN /\ Len(a.items) = Len(b.items)
         /\ \A i \in 1..Len(a.items) : KeyEq(a.items[i], b.items[i])
    ELSE IF a.t = "some" /\ b.t = "some" THEN KeyEq(a.v, b.v)
    ELSE a = b

\* What a value feeds its Hasher: a Spanned value feeds what its inner
\* value feeds (Hash for Spanned<T>), a sequence its length and then what
\* its elements feed, anything else itself
RECURSIVE HashWrites(_)
RECURSIVE HashWritesOfAll(_, _)
HashWritesOfAll(items, k) ==
    IF k > Len(items) THEN <<>>
    ELSE HashWrites(items[k]) \o HashWritesOfAll(items, k + 1)

HashWrites(v) ==
    IF v.t = "spanned" THEN HashWrites(v.inner)
    ELSE IF v.t = "seq" THEN <<Len(v.items)>> \o HashWritesOfAll(v.items, 1)
    ELSE IF v.t = "some" THEN <<1>> \o HashWrites(v.v)
    ELSE <<v>>

\* HashMap::insert, keeping the pairs in the order their keys first came
MapInsert(pairs, k, v) ==
    IF \E i \in 1..Len(pairs) : KeyEq(pairs[i][1], k)
    THEN [i \in 1..Len(pairs) |->
            IF KeyEq(pairs[i][1], k) THEN <<pairs[i][1], v>> ELSE pairs[i]]
    ELSE Append(pairs, <<k, v>>)

(***************************************************************************)
(* The decode: Deserialize(node, ty, chain) is T::deserialize on the       *)
(* deserializer of `node`, for the target type `ty`, reached along the     *)
(* tracked path `chain`.                                                   *)
(***************************************************************************)
RECURSIVE Deserialize(_, _, _)
RECURSIVE MapLoop(_, _, _, _)
RECURSIVE StructLoop(_, _, _, _)
RECURSIVE StructSeqLoop(_, _, _, _, _)
RECURSIVE VecLoop(_, _, _, _)
RECURSIVE StructFinish(_, _, _, _, _)
RECURSIVE ReadMarker(_, _, _, _, _, _)

\* Ok(v) becomes Ok(Some(v)); a failure or an abort stays what it is
MapSome(r) == IF r.ok THEN Ok(Some(r.val)) ELSE r

\* The result of decoding a key scalar, as the tracked key request returns
\* it: a failure is recorded under the segment of the key
KeyResult(r, cap, chain) ==
    IF r.ok THEN Ok(Some(r.val))
    ELSE IF r.panic THEN r
    ELSE Fail(r.err, chain \o <<KeySeg(cap)>>)

\* MappingAccess::next_key_seed as if it took the entry off the iterator
MappingNextKeySeedConsumes(access, keyTy, chain) ==
    IF access.at < Len(access.entries)
    THEN [res |-> KeyResult(Deserialize(access.entries[access.at + 1].k, keyTy, chain),
                            KeyCapture(keyTy, access.entries[access.at + 1].k.text), chain),
          access |-> [access EXCEPT
                        !.at = @ + 1,
                        !.captured = KeyCapture(keyTy, access.entries[access.at + 1].k.text)]]
    ELSE [res |-> Ok(None), access |-> access]

\* MappingAccess::next_key_seed: peek, decode the key scalar
MappingNextKeySeed(access, keyTy, chain) ==
    IF access.at < Len(access.entries)
    THEN [res |-> KeyResult(Deserialize(access.entries[access.at + 1].k, keyTy, chain),
                            KeyCapture(keyTy, access.entries[access.at + 1].k.text), chain),
          access |-> [access EXCEPT
                        !.captured = KeyCapture(keyTy, access.entries[access.at + 1].k.text)]]
    ELSE [res |-> Ok(None), access |-> access]

\* MappingAccess::next_value_seed: advance, decode the value node
MappingNextValueSeed(access, valTy, chain) ==
    IF access.at < Len(access.entries)
    THEN [res |-> Deserialize(access.entries[access.at + 1].v, valTy,
                              chain \o <<KeySeg(access.captured)>>),
          access |-> [access EXCEPT !.at = @ + 1, !.captured = None]]
    ELSE [res |-> Panic("next_value_seed called before next_key_seed"),
          access |-> [access EXCEPT !.captured = None]]

\* SpannedDeserializer::next_key_seed
SpannedNextKeySeed(access, keyTy, chain) ==
    IF IsNone(SpannedKey(access.state)) THEN [res |-> Ok(None), access |-> access]
    ELSE [res |-> MapSome(VisitStr(keyTy, Unwrap(SpannedKey(access.state)), TRUE,
                                   chain \o <<SegMap(Unwrap(SpannedKey(access.state)))>>)),
          access |-> [access EXCEPT !.captured = SpannedKey(access.state)]]

\* SpannedDeserializer::next_value_seed
SpannedNextValueSeed(access, valTy, chain) ==
    CASE access.state \in CoordinateStates ->
            IF IsNone(SpannedCoordinate(access.state, access.node.span))
            THEN [res |-> Panic(IF access.state \in StartStates
                                THEN "Span missing start" ELSE "Span missing end"),
                  access |-> [access EXCEPT !.captured = None]]
            ELSE [res |-> DeserializeUsize(
                              Unwrap(SpannedCoordinate(access.state, access.node.span)),
                              valTy, chain \o <<KeySeg(access.captured)>>),
                  access |-> [access EXCEPT
                                !.state = SpannedNextState(access.state, access.node.span),
                                !.captured = None]]
      [] access.state = "SendValue" ->
            [res |-> Deserialize(access.node, valTy, chain \o <<KeySeg(access.captured)>>),
             access |-> [access EXCEPT
                           !.state = SpannedNextState(access.state, access.node.span),
                           !.captured = None]]
      [] access.state = "Done" ->
            [res |-> Panic("next_value_seed called before next_key_seed"),
             access |-> [access EXCEPT !.captured = None]]

\* next_key_seed and next_value_seed of whichever cursor the visitor holds
AccessNextKey(access, keyTy, chain) ==
    IF access.acc = "Mapping" THEN MappingNextKeySeed(access, keyTy, chain)
    ELSE SpannedNextKeySeed(access, keyTy, chain)

AccessNextValue(access, valTy, chain) ==
    IF access.acc = "Mapping" THEN MappingNextValueSeed(access, valTy, chain)
    ELSE SpannedNextValueSeed(access, valTy, chain)

\* next_element_seed as if the index were recorded counting from one
SeqNextElementSeedFromOne(access, elemTy, chain) ==
    IF access.pos = Len(access.items)
    THEN [res |-> Ok(None), access |-> access]
    ELSE [res |-> MapSome(Deserialize(access.items[access.pos + 1], elemTy,
                                      chain \o <<SegSeq(access.pos + 1)>>)),
          access |-> [access EXCEPT !.pos = access.pos + 1]]

\* SequenceAccess::next_element_seed
SeqNextElementSeed(access, elemTy, chain) ==
    IF access.pos = Len(access.items)
    THEN [res |-> Ok(None), access |-> access]
    ELSE [res |-> MapSome(Deserialize(access.items[access.pos + 1], elemTy,
                                      chain \o <<SegSeq(access.pos)>>)),
          access |-> [access EXCEPT !.pos = access.pos + 1]]

\* The visitor of a map type: next_entry until the cursor is exhausted.
\* MapLoopValue is the entry's second half, `k` the decoded key and `v`
\* the answer to the value request.
MapLoopValue(k, v, ty, chain, acc) ==
    IF ~v.res.ok THEN v.res
    ELSE MapLoop(v.access, ty, chain, MapInsert(acc, k, v.res.val))

MapLoopKey(k, ty, chain, acc) ==
    IF ~k.res.ok THEN k.res
    ELSE IF IsNone(k.res.val) THEN Ok(VMap(acc))
    ELSE MapLoopValue(Unwrap(k.res.val), AccessNextValue(k.access, ty.val, chain),
                      ty, chain, acc)

MapLoop(access, ty, chain, acc) ==
    MapLoopKey(AccessNextKey(access, ty.key, chain), ty, chain, acc)

\* The end of a derived struct's visit_map: every field not seen is
\* missing, which only an Option field survives
StructFinish(ty, slots, chain, i, acc) ==
    IF i > Len(ty.fields) THEN Ok(VStruct(acc))
    ELSE IF IsSome(slots[i]) THEN StructFinish(ty, slots, chain, i + 1, Append(acc, Unwrap(slots[i])))
    ELSE IF ty.fields[i].ty.t = "Option" THEN StructFinish(ty, slots, chain, i + 1, Append(acc, VNone))
    ELSE Fail(ErrorCustom("missing field"), chain)

\* A derived struct's visit_map: field identifier, then the field's value
\* (an unknown field's value is skipped unless unknown fields are denied).
\* StructLoopValue is the half after the value request for field `idx`
\* (0: a skipped value).
StructLoopValue(idx, v, ty, chain, slots) ==
    IF ~v.res.ok THEN v.res
    ELSE IF idx = 0 THEN StructLoop(v.access, ty, chain, slots)
    ELSE StructLoop(v.access, ty, chain, [slots EXCEPT ![idx] = Some(v.res.val)])

StructLoopKey(k, ty, chain, slots) ==
    IF ~k.res.ok THEN k.res
    ELSE IF IsNone(k.res.val) THEN StructFinish(ty, slots, chain, 1, <<>>)
    ELSE IF Unwrap(k.res.val).index = 0
    THEN StructLoopValue(0, AccessNextValue(k.access, TIgnoredAny, chain), ty, chain, slots)
    ELSE IF IsSome(slots[Unwrap(k.res.val).index])
    THEN Fail(ErrorCustom("duplicate field"), chain)
    ELSE StructLoopValue(Unwrap(k.res.val).index,
                         AccessNextValue(k.access, ty.fields[Unwrap(k.res.val).index].ty, chain),
                         ty, chain, slots)

StructLoop(access, ty, chain, slots) ==
    StructLoopKey(AccessNextKey(access, TField(ty), chain), ty, chain, slots)

\* A derived struct's visit_seq: the fields by position
StructSeqElement(r, ty, chain, i, acc) ==
    IF ~r.res.ok THEN r.res
    ELSE IF IsNone(r.res.val) THEN Fail(ErrorCustom("invalid length"), chain)
    ELSE StructSeqLoop(r.access, ty, chain, i + 1, Append(acc, Unwrap(r.res.val)))

StructSeqLoop(access, ty, chain, i, acc) ==
    IF i > Len(ty.fields) THEN Ok(VStruct(acc))
    ELSE StructSeqElement(SeqNextElementSeed(access, ty.fields[i].ty, chain), ty, chain, i, acc)

\* The visitor of a sequence type: next_element until exhausted
VecElement(r, elemTy, chain, acc) ==
    IF ~r.res.ok THEN r.res
    ELSE IF IsNone(r.res.val) THEN Ok(VSeq(acc))
    ELSE VecLoop(r.access, elemTy, chain, Append(acc, Unwrap(r.res.val)))

VecLoop(access, elemTy, chain, acc) ==
    VecElement(SeqNextElementSeed(access, elemTy, chain), elemTy, chain, acc)

\* One marker of MarkedNodeVisitor::visit_map.  ReadMarker is entered with
\* the cursor standing on coordinate i of the marker (1: source, 2: line,
\* 3: column), the coordinates read so far in `got`: it requests the value,
\* then the next key, which after source and line must be the marker's
\* next field.  The answer is the marker, the cursor and the key after it.
ReadMarkerKey(v, k, names, missing, i, got, chain) ==
    IF ~k.res.ok THEN [res |-> k.res, access |-> k.access, key |-> None]
    ELSE IF i < 3 /\ k.res.val # Some(VStr(names[i + 1]))
    THEN [res |-> Fail(ErrorCustom(missing[i]), chain), access |-> k.access, key |-> None]
    ELSE IF i < 3
    THEN ReadMarker(k.access, names, missing, i + 1, Append(got, v.res.val.i), chain)
    ELSE [res |-> Ok(Some(MarkerNew(got[1], got[2], v.res.val.i))),
          access |-> k.access, key |-> k.res.val]

ReadMarkerValue(v, names, missing, i, got, chain) ==
    IF ~v.res.ok THEN [res |-> v.res, access |-> v.access, key |-> None]
    ELSE ReadMarkerKey(v, AccessNextKey(v.access, TStr, chain), names, missing, i, got, chain)

ReadMarker(access, names, missing, i, got, chain) ==
    ReadMarkerValue(AccessNextValue(access, TUsize, chain), names, missing, i, got, chain)

\* `if key == Some(<source field>) { ... Some(Marker::new(..)) } else { None }`
OptionalMarker(access, key, names, missing, chain) ==
    IF key = Some(VStr(names[1]))
    THEN ReadMarker(access, names, missing, 1, <<>>, chain)
    ELSE [res |-> Ok(None), access |-> access, key |-> key]

\* VisitMapFinish with the two markers handed to the wrong setters
VisitMapFinishSwapped(span_start, span_end, inner) ==
    IF ~inner.res.ok THEN inner.res
    ELSE Ok(SpannedNew(SpanSetEnd(SpanSetStart(SpanNewBlank, span_end), span_start),
                       inner.res.val))

\* MarkedNodeVisitor::visit_map, from its end to its beginning: the inner
\* value and Spanned::new; the inner key test; span_end; span_start; the
\* first key request.
VisitMapFinish(span_start, span_end, inner) ==
    IF ~inner.res.ok THEN inner.res
    ELSE Ok(SpannedNew(SpanSetEnd(SpanSetStart(SpanNewBlank, span_start), span_end),
                       inner.res.val))

VisitMapInner(span_start, span_end, ty, chain) ==
    IF ~span_end.res.ok THEN span_end.res
    ELSE IF span_end.key # Some(VStr(SPANNED_INNER))
    THEN Fail(ErrorCustom("marked node inner value not found"), chain)
    ELSE VisitMapFinish(span_start, span_end.res.val,
                        AccessNextValue(span_end.access, ty.elem, chain))

VisitMapEnd(span_start, ty, chain) ==
    IF ~span_start.res.ok THEN span_start.res
    ELSE VisitMapInner(span_start.res.val,
                       OptionalMarker(span_start.access, span_start.key,
                           <<SPANNED_SPAN_END_SOURCE, SPANNED_SPAN_END_LINE,
                             SPANNED_SPAN_END_COLUMN>>,
                           <<"marked node span end line missing",
                             "marked node span end column missing">>, chain),
                       ty, chain)

VisitMapStart(k, ty, chain) ==
    IF ~k.res.ok THEN k.res
    ELSE VisitMapEnd(OptionalMarker(k.access, k.res.val,
                         <<SPANNED_SPAN_START_SOURCE, SPANNED_SPAN_START_LINE,
                           SPANNED_SPAN_START_COLUMN>>,
                         <<"marked node span start line missing",
                           "marked node span start column missing">>, chain),
                     ty, chain)

MarkedNodeVisitMap(access, ty, chain) ==
    VisitMapStart(AccessNextKey(access, TStr, chain), ty, chain)

\* serde::de::IgnoredAny after its map or sequence loop
IgnoredResult(r) == IF r.ok THEN Ok(VUnit) ELSE r

\* What the visitor of `ty` does with a map cursor
VisitMap(ty, access, chain) ==
    CASE ty.t = "Map" -> MapLoop(access, ty, chain, <<>>)
      [] ty.t = "Struct" -> StructLoop(access, ty, chain, [i \in 1..Len(ty.fields) |-> None])
      [] ty.t = "Spanned" -> MarkedNodeVisitMap(access, ty, chain)
      [] ty.t = "IgnoredAny" ->
            IgnoredResult(MapLoop(access, TMap(TIgnoredAny, TIgnoredAny), chain, <<>>))
      [] OTHER -> Fail(ErrorCustom("invalid type"), chain)

\* What the visitor of `ty` does with a sequence cursor
VisitSeq(ty, access, chain) ==
    CASE ty.t = "Vec" -> VecLoop(access, ty.elem, chain, <<>>)
      [] ty.t = "Struct" -> StructSeqLoop(access, ty, chain, 1, <<>>)
      [] ty.t = "IgnoredAny" -> IgnoredResult(VecLoop(access, TIgnoredAny, chain, <<>>))
      [] OTHER -> Fail(ErrorCustom("invalid type"), chain)

\* deserialize_any of the three per-kind deserializers
DeserializeAny(node, ty, chain) ==
    CASE node.kind = "Scalar" -> VisitStr(ty, node.text, FALSE, chain)
      [] node.kind = "Mapping" -> VisitMap(ty, MappingAccessNew(node.entries), chain)
      [] node.kind = "Sequence" -> VisitSeq(ty, SequenceAccessNew(node.items), chain)

\* The test as if the reserved name alone decided
IsSpannedRequestByName(name, fields) == name = SPANNED_TYPE

\* The reserved-identifier test of the three deserialize_struct methods
IsSpannedRequest(name, fields) == name = SPANNED_TYPE /\ fields = SPANNED_FIELDS

\* deserialize_struct of the three per-kind deserializers
DeserializeStruct(node, name, fields, ty, chain) ==
    IF IsSpannedRequest(name, fields)
    THEN VisitMap(ty, SpannedDeserializerNew(node), chain)
    ELSE DeserializeAny(node, ty, chain)

\* deserialize_option of the three per-kind deserializers: visit_some(self)
SomeResult(r) == IF r.ok THEN Ok(VSome(r.val)) ELSE r

\* deserialize_option as if the scalar deserializer answered a null scalar
\* with visit_none
DeserializeOptionNullIsNone(node, ty, chain) ==
    IF node.kind = "Scalar" /\ node.text = <<"~">> THEN Ok(VNone)
    ELSE SomeResult(Deserialize(node, ty.elem, chain))

DeserializeOption(node, ty, chain) == SomeResult(Deserialize(node, ty.elem, chain))

\* T::deserialize(NodeDeserializer::new(node)): the method T asks for,
\* forwarded by forward_to_nodes! to the deserializer of the node's kind
Deserialize(node, ty, chain) ==
    CASE ty.t \in IntTypes \cup {"F64"} ->
            IF node.kind = "Scalar" THEN ScalarFromStr(node, ty, chain)
            ELSE DeserializeAny(node, ty, chain)
      [] ty.t = "Bool" ->
            IF node.kind = "Scalar" THEN ScalarDeserializeBool(node, chain)
            ELSE DeserializeAny(node, ty, chain)
      [] ty.t = "Option" -> DeserializeOption(node, ty, chain)
      [] ty.t = "Struct" -> DeserializeStruct(node, ty.name, FieldNames(ty), ty, chain)
      [] ty.t = "Spanned" -> DeserializeStruct(node, SPANNED_TYPE, SPANNED_FIELDS, ty, chain)
      [] ty.t \in {"String", "Str", "Vec", "Map", "Field", "IgnoredAny"} ->
            DeserializeAny(node, ty, chain)

(***************************************************************************)
(* The documents and target types the model decodes                        *)
(***************************************************************************)
SeqLen == 2
MaxPathLen == 2

\* The scalar texts of the documents
Words ==
    [hello   |-> <<"h", "e", "l", "l", "o">>,
     world   |-> <<"w", "o", "r", "l", "d">>,
     numbers |-> <<"n", "u", "m", "b", "e", "r", "s">>,
     success |-> <<"s", "u", "c", "c", "e", "s", "s">>,
     inner   |-> <<"i", "n", "n", "e", "r">>,
     absent  |-> <<"a", "b", "s", "e", "n", "t">>,
     one     |-> <<"1">>,
     zero_one |-> <<"0", "1">>,
     five_hundred |-> <<"5", "0", "0">>,
     x       |-> <<"x">>,
     one_and_a_half |-> <<"1", ".", "5">>,
     true    |-> <<"t", "r", "u", "e">>,
     False   |-> <<"F", "a", "l", "s", "e">>,
     null    |-> <<"~">>]

\* [ 1, ..., 1, 500 ]: SeqLen elements, the last of them 500
NumberItems(ss, line) ==
    [i \in 1..SeqLen |->
        Scalar(Sp(ss, line, 10 + 3 * i, 1), IF i = SeqLen THEN Words.five_hundred ELSE Words.one)]

\* hello: world / numbers: [ 1, 500 ] / success: true
\* cs, ss and ks are the span shapes of the containers, the value scalars
\* and the key scalars.
TestDoc(cs, ss, ks) ==
    Mapping(Sp(cs, 1, 1, 60),
        <<Entry(Scalar(Sp(ks, 1, 1, 5), Words.hello), Scalar(Sp(ss, 1, 8, 5), Words.world)),
          Entry(Scalar(Sp(ks, 2, 1, 7), Words.numbers),
                Sequence(Sp(cs, 2, 10, 20), NumberItems(ss, 2))),
          Entry(Scalar(Sp(ks, 3, 1, 7), Words.success), Scalar(Sp(ss, 3, 10, 4), Words.true))>>)

\* inner: { hello: 1.5 } / hello: x
NestedDoc(cs, ss, ks) ==
    Mapping(Sp(cs, 1, 1, 30),
        <<Entry(Scalar(Sp(ks, 1, 1, 5), Words.inner),
                Mapping(Sp(cs, 1, 8, 14),
                    <<Entry(Scalar(Sp(ks, 1, 10, 5), Words.hello), Scalar(Sp(ss, 1, 17, 3), Words.one_and_a_half))>>)),
          Entry(Scalar(Sp(ks, 2, 1, 5), Words.hello), Scalar(Sp(ss, 2, 8, 1), Words.x))>>)

\* 1: 01 / 01: x / x: 1
KeyedDoc(cs, ss, ks) ==
    Mapping(Sp(cs, 1, 1, 20),
        <<Entry(Scalar(Sp(ks, 1, 1, 1), Words.one), Scalar(Sp(ss, 1, 4, 2), Words.zero_one)),
          Entry(Scalar(Sp(ks, 2, 1, 2), Words.zero_one), Scalar(Sp(ss, 2, 5, 1), Words.x)),
          Entry(Scalar(Sp(ks, 3, 1, 1), Words.x), Scalar(Sp(ss, 3, 4, 1), Words.one))>>)

\* [ 1, 500 ]
SeqDoc(cs, ss, ks) == Sequence(Sp(cs, 1, 1, 20), NumberItems(ss, 1))

\* [ true, [ 1, 500 ] ]
SeqSeqDoc(cs, ss, ks) ==
    Sequence(Sp(cs, 1, 1, 30),
        <<Scalar(Sp(ss, 1, 3, 4), Words.true), Sequence(Sp(cs, 1, 9, 20), NumberItems(ss, 1))>>)

\* 500, 1.5, False and ~ as whole documents
ScalarDocs(ss) ==
    {Scalar(Sp(ss, 1, 1, 3), Words.five_hundred), Scalar(Sp(ss, 1, 1, 3), Words.one_and_a_half),
     Scalar(Sp(ss, 1, 1, 5), Words.False), Scalar(Sp(ss, 1, 1, 1), Words.null)}

Trees ==
    UNION {{TestDoc(cs, ss, ks), NestedDoc(cs, ss, ks), KeyedDoc(cs, ss, ks),
            SeqDoc(cs, ss, ks), SeqSeqDoc(cs, ss, ks)} \cup ScalarDocs(ss) :
           cs \in SpanShapes, ss \in SpanShapes, ks \in SpanShapes}

\* struct TestDoc { numbers: Vec<u8> }
TNumbers == TStruct(<<"TestDoc">>, <<Field(Words.numbers, TVec(TU8))>>, FALSE)
\* #[serde(deny_unknown_fields)] struct TestDoc { success: bool }
TDeny == TStruct(<<"TestDoc">>, <<Field(Words.success, TBool)>>, TRUE)
\* struct TestDoc { hello: Spanned<String>, numbers: Spanned<Vec<Spanned<i8>>>,
\*                  success: Option<bool> }
TEverything ==
    TStruct(<<"TestDoc">>,
            <<Field(Words.hello, TSpanned(TString)),
              Field(Words.numbers, TSpanned(TVec(TSpanned(TI8)))),
              Field(Words.success, TOption(TBool))>>, FALSE)
\* struct Outer { inner: Spanned<Inner> },
\* #[serde(deny_unknown_fields)] struct Inner { absent: f64 }
TOuter ==
    TStruct(<<"Outer">>,
            <<Field(Words.inner,
                    TSpanned(TStruct(<<"Inner">>, <<Field(Words.absent, TF64)>>, TRUE)))>>, FALSE)
\* struct Greeting { hello: f64 }
TGreeting == TStruct(<<"Greeting">>, <<Field(Words.hello, TF64)>>, FALSE)
\* struct Salute { hello: Spanned<String>, success: Option<bool> }
TSalute ==
    TStruct(<<"Salute">>,
            <<Field(Words.hello, TSpanned(TString)), Field(Words.success, TOption(TBool))>>, FALSE)

\* The types a document is decoded as without a span wrapper around them
PlainTypes ==
    {TU8, TF64, TBool, TString, TVec(TU8), TVec(TIgnoredAny), TNumbers, TDeny, TEverything,
     TOuter, TGreeting, TSalute, TMap(TString, TIgnoredAny), TMap(TU8, TF64),
     TMap(TSpanned(TString), TU8), TOption(TVec(TOption(TF64))), TOption(TBool)}

Types == PlainTypes \cup {TSpanned(t) : t \in PlainTypes}

\* Structs of a caller's own that share identifiers with the span wrapper:
\* its name with a field of their own, its seven fields under another name,
\* its name with the seven fields in another order, and its name with the
\* seven fields in its order
ReservedLookalikes ==
    {TStruct(SPANNED_TYPE, <<Field(Words.hello, TString)>>, FALSE),
     TStruct(<<"Other">>,
             [i \in 1..7 |-> Field(SPANNED_FIELDS[i], TIgnoredAny)], FALSE),
     TStruct(SPANNED_TYPE,
             [i \in 1..7 |-> Field(SPANNED_FIELDS[IF i = 7 THEN 1 ELSE i + 1], TIgnoredAny)],
             FALSE),
     TStruct(SPANNED_TYPE,
             [i \in 1..7 |-> Field(SPANNED_FIELDS[i], TIgnoredAny)], FALSE)}

\* Whole documents that are one decimal numeral, at and around the ends of
\* the ranges of the integer types, and the types they are decoded as
NumeralValues ==
    {-32769, -32768, -129, -128, -1, 0, 1, 127, 128, 255, 256, 500, 32767, 32768, 65535, 65536}

NumeralDocs ==
    {Scalar(Sp(ss, 1, 1, Len(IntToString(v))), IntToString(v)) :
        ss \in {"both", "blank"}, v \in NumeralValues}

NumeralTypes == {TU8, TI8, TU16, TI16}

(***************************************************************************)
(* State                                                                   *)
(*                                                                         *)
(* One from_node call:                                                     *)
(*   node            the root of the document being decoded                *)
(*   ty              the target type T                                     *)
(*   serde_path      whether the build has the serde-path feature          *)
(*   pc              where the call is: "start", "map_err" (the closure    *)
(*                   is entered), "replay" (the for loop), "span" (after   *)
(*                   the loop), "done" (returned); "idle" when no call     *)
(*   p2e             the result of the decode, None before it              *)
(*   e, p            the closure's error and path                          *)
(*   best_node, prev_best_node, seg_i   the replay loop's variables, seg_i *)
(*                   being the count of segments the iterator has yielded  *)
(*   ret             what from_node returned, None before it returns       *)
(* One cursor (SpannedDeserializer or MappingAccess) driven by a caller:   *)
(*   sd              the cursor, None when there is none                   *)
(*   sd_ty           the type the caller decodes the inner value as        *)
(*   sd_log          history: the answers to the requests made so far      *)
(*   sd_alt          history: the requests so far alternate key, value     *)
(*   sd_last         history: the last request, "none" before the first    *)
(*   sd_panic        the cursor has aborted                                *)
(* Several from_node calls over one tree:                                  *)
(*   calls           history: type, result and mixed of each call that     *)
(*                   has returned, in the order of their return            *)
(*   other           the frame of a second call in flight that is not      *)
(*                   taking the current step, None when there is none      *)
(*   mixed           history: a step of another call fell between the      *)
(*                   start of the running call and now                     *)
(* Span-wrapper values a caller compares and hashes:                       *)
(*   eq_in           the three values, <<>> when there are none            *)
(*   eq_out          what the comparisons and the hashers gave, None       *)
(*                   before they are made                                  *)
(***************************************************************************)
VARIABLES node, ty, serde_path, pc, p2e, e, p, best_node, prev_best_node, seg_i, ret,
          sd, sd_ty, sd_log, sd_alt, sd_last, sd_panic,
          calls, other, mixed,
          eq_in, eq_out

driver_vars == <<node, ty, serde_path, pc, p2e, e, p, best_node, prev_best_node, seg_i, ret>>
sd_vars == <<sd, sd_ty, sd_log, sd_alt, sd_last, sd_panic>>
call_vars == <<calls, other, mixed>>
eq_vars == <<eq_in, eq_out>>
vars == <<driver_vars, sd_vars, call_vars, eq_vars>>

NoNode == Scalar(SpanNewBlank, <<>>)
NoError == ErrorCustom("")

DriverIdle ==
    /\ node = NoNode /\ ty = TIgnoredAny /\ serde_path = FALSE /\ pc = "idle"
    /\ p2e = None /\ e = NoError /\ p = <<>>
    /\ best_node = NoNode /\ prev_best_node = NoNode /\ seg_i = 0 /\ ret = None

SdIdle ==
    /\ sd = None /\ sd_ty = TIgnoredAny /\ sd_log = <<>> /\ sd_alt = TRUE
    /\ sd_last = "none" /\ sd_panic = FALSE

CallIdle == calls = <<>> /\ other = None /\ mixed = FALSE

EqIdle == eq_in = <<>> /\ eq_out = None

(***************************************************************************)
(* from_node                                                               *)
(***************************************************************************)

\* One segment of the replay: the node the segment leads to from
\* best_node, None where the loop breaks
ResolveSeg(best, seg) ==
    CASE seg.seg = "Seq" ->
            LET seq == AsSequence(best)
            IN  IF IsSome(seq) THEN SeqGet(Unwrap(seq), seg.index) ELSE None
      [] seg.seg = "Map" ->
            LET map == AsMapping(best)
            IN  IF IsSome(map) THEN MapGet(Unwrap(map), seg.key) ELSE None
      [] seg.seg = "Enum" -> None
      [] seg.seg = "Unknown" -> None

\* BestSpan as if the loop over the keys took the first key, whatever its
\* name
BestSpanOfFirstKey(best, prev, err) ==
    IF err.kind = "UnknownFieldError" /\ IsSome(AsMapping(prev))
          /\ Len(Unwrap(AsMapping(prev))) > 0
    THEN Unwrap(AsMapping(prev))[1].k.span
    ELSE best.span

\* BestSpan without the preference for the key of an unknown field
BestSpanOfValue(best, prev, err) == best.span

\* The span set_span is given after the loop: best_node's, or for an
\* unknown field the span of the first key of prev_best_node with the
\* field's name
BestSpan(best, prev, err) ==
    LET map == AsMapping(prev)
        hit == IF IsSome(map)
               THEN {i \in 1..Len(Unwrap(map)) : Unwrap(map)[i].k.text = err.field}
               ELSE {}
    IN  IF err.kind = "UnknownFieldError" /\ hit # {}
        THEN Unwrap(map)[CHOOSE i \in hit : \A j \in hit : i <= j].k.span
        ELSE best.span

\* Decode as if the deserializer took the root out of the tree
DecodeTakesRoot ==
    /\ pc = "start"
    /\ LET r == Deserialize(node, ty, <<>>)
       IN  /\ p2e' = Some(r)
           /\ IF r.ok \/ r.panic \/ ~serde_path
              THEN /\ pc' = "done"
                   /\ ret' = Some(IF r.ok \/ r.panic THEN r ELSE Fail(r.err, <<>>))
              ELSE /\ pc' = "map_err"
                   /\ ret' = ret
    /\ node' = IF Unwrap(p2e').ok THEN NoNode ELSE node
    /\ UNCHANGED <<ty, serde_path, e, p, best_node, prev_best_node, seg_i>>
    /\ UNCHANGED <<sd_vars, call_vars, eq_vars>>

\* The decode itself: T::deserialize(NodeDeserializer::new(node)), in the
\* serde-path build under serde_path_to_error::deserialize.  The plain
\* build returns its result as it is; an abort leaves from_node at once.
Decode ==
    /\ pc = "start"
    /\ LET r == Deserialize(node, ty, <<>>)
       IN  /\ p2e' = Some(r)
           /\ IF r.ok \/ r.panic \/ ~serde_path
              THEN /\ pc' = "done"
                   /\ ret' = Some(IF r.ok \/ r.panic THEN r ELSE Fail(r.err, <<>>))
              ELSE /\ pc' = "map_err"
                   /\ ret' = ret
    /\ UNCHANGED <<node, ty, serde_path, e, p, best_node, prev_best_node, seg_i>>
    /\ UNCHANGED <<sd_vars, call_vars, eq_vars>>

\* MapErr with the test of the start mark the wrong way round
MapErrGuardInverted ==
    /\ pc = "map_err"
    /\ LET r == Unwrap(p2e)
       IN  IF IsSome(StartMark(r.err))
           THEN /\ p' = r.path
                /\ e' = r.err
                /\ prev_best_node' = node
                /\ best_node' = node
                /\ seg_i' = 0
                /\ pc' = "replay"
                /\ ret' = ret
           ELSE /\ ret' = Some(r)
                /\ pc' = "done"
                /\ UNCHANGED <<e, p, best_node, prev_best_node, seg_i>>
    /\ UNCHANGED <<node, ty, serde_path, p2e>>
    /\ UNCHANGED <<sd_vars, call_vars, eq_vars>>

\* MapErr as if its else-arm rebuilt the error with Error::custom
MapErrRebuildsMarked ==
    /\ pc = "map_err"
    /\ LET r == Unwrap(p2e)
       IN  IF IsNone(StartMark(r.err))
           THEN /\ p' = r.path
                /\ e' = r.err
                /\ prev_best_node' = node
                /\ best_node' = node
                /\ seg_i' = 0
                /\ pc' = "replay"
                /\ ret' = ret
           ELSE /\ ret' = Some(Fail([ErrorCustom(r.err.msg) EXCEPT !.span = r.err.span],
                                    r.path))
                /\ pc' = "done"
                /\ UNCHANGED <<e, p, best_node, prev_best_node, seg_i>>
    /\ UNCHANGED <<node, ty, serde_path, p2e>>
    /\ UNCHANGED <<sd_vars, call_vars, eq_vars>>

\* The map_err closure is entered: an error with a start mark is returned
\* as it is, any other has its path replayed from the root
MapErr ==
    /\ pc = "map_err"
    /\ LET r == Unwrap(p2e)
       IN  IF IsNone(StartMark(r.err))
           THEN /\ p' = r.path
                /\ e' = r.err
                /\ prev_best_node' = node
                /\ best_node' = node
                /\ seg_i' = 0
                /\ pc' = "replay"
                /\ ret' = ret
           ELSE /\ ret' = Some(r)
                /\ pc' = "done"
                /\ UNCHANGED <<e, p, best_node, prev_best_node, seg_i>>
    /\ UNCHANGED <<node, ty, serde_path, p2e>>
    /\ UNCHANGED <<sd_vars, call_vars, eq_vars>>

\* ReplaySeg with `continue` where the code has `break`
ReplaySegNoBreak ==
    /\ pc = "replay"
    /\ seg_i < Len(p)
    /\ LET next == ResolveSeg(best_node, p[seg_i + 1])
       IN  IF IsSome(next)
           THEN /\ prev_best_node' = best_node
                /\ best_node' = Unwrap(next)
           ELSE UNCHANGED <<best_node, prev_best_node>>
    /\ pc' = "replay"
    /\ seg_i' = seg_i + 1
    /\ UNCHANGED <<node, ty, serde_path, p2e, e, p, ret>>
    /\ UNCHANGED <<sd_vars, call_vars, eq_vars>>

\* One iteration of `for seg in p.iter()`
ReplaySeg ==
    /\ pc = "replay"
    /\ seg_i < Len(p)
    /\ LET next == ResolveSeg(best_node, p[seg_i + 1])
       IN  IF IsSome(next)
           THEN /\ prev_best_node' = best_node
                /\ best_node' = Unwrap(next)
                /\ pc' = "replay"
           ELSE /\ pc' = "span"
                /\ UNCHANGED <<best_node, prev_best_node>>
    /\ seg_i' = seg_i + 1
    /\ UNCHANGED <<node, ty, serde_path, p2e, e, p, ret>>
    /\ UNCHANGED <<sd_vars, call_vars, eq_vars>>

\* Backfill setting the node's span first and the key's span after it
BackfillSetsTwice ==
    /\ \/ pc = "span"
       \/ pc = "replay" /\ seg_i = Len(p)
    /\ LET best_span == BestSpan(best_node, prev_best_node, e)
       IN  /\ e' = SetSpan(SetSpan(e, best_node.span), best_span)
           /\ ret' = Some(Fail(e', p))
    /\ pc' = "done"
    /\ UNCHANGED <<node, ty, serde_path, p2e, p, best_node, prev_best_node, seg_i>>
    /\ UNCHANGED <<sd_vars, call_vars, eq_vars>>

\* Backfill leaving the span as it was when the replay resolved nothing
BackfillKeepsSpanAtRoot ==
    /\ \/ pc = "span"
       \/ pc = "replay" /\ seg_i = Len(p)
    /\ LET best_span == BestSpan(best_node, prev_best_node, e)
       IN  /\ e' = IF best_node = node THEN [e EXCEPT !.sets = @ + 1]
                   ELSE SetSpan(e, best_span)
           /\ ret' = Some(Fail(e', p))
    /\ pc' = "done"
    /\ UNCHANGED <<node, ty, serde_path, p2e, p, best_node, prev_best_node, seg_i>>
    /\ UNCHANGED <<sd_vars, call_vars, eq_vars>>

\* Backfill writing the span into the root of the tree as well
BackfillWritesTree ==
    /\ \/ pc = "span"
       \/ pc = "replay" /\ seg_i = Len(p)
    /\ LET best_span == BestSpan(best_node, prev_best_node, e)
       IN  /\ e' = SetSpan(e, best_span)
           /\ ret' = Some(Fail(e', p))
           /\ node' = [node EXCEPT !.span = best_span]
    /\ pc' = "done"
    /\ UNCHANGED <<ty, serde_path, p2e, p, best_node, prev_best_node, seg_i>>
    /\ UNCHANGED <<sd_vars, call_vars, eq_vars>>

\* After the loop: best_span, set_span, the error is returned with its path
Backfill ==
    /\ \/ pc = "span"
       \/ pc = "replay" /\ seg_i = Len(p)
    /\ LET best_span == BestSpan(best_node, prev_best_node, e)
       IN  /\ e' = SetSpan(e, best_span)
           /\ ret' = Some(Fail(e', p))
    /\ pc' = "done"
    /\ UNCHANGED <<node, ty, serde_path, p2e, p, best_node, prev_best_node, seg_i>>
    /\ UNCHANGED <<sd_vars, call_vars, eq_vars>>

Init ==
    /\ \/ node \in Trees /\ ty \in Types \cup ReservedLookalikes
       \/ node \in NumeralDocs /\ ty \in NumeralTypes
    /\ serde_path \in BOOLEAN
    /\ pc = "start"
    /\ p2e = None /\ e = NoError /\ p = <<>>
    /\ best_node = NoNode /\ prev_best_node = NoNode /\ seg_i = 0 /\ ret = None
    /\ SdIdle
    /\ CallIdle
    /\ EqIdle

Next == Decode \/ MapErr \/ ReplaySeg \/ Backfill

Spec == Init /\ [][Next]_vars

(***************************************************************************)
(* The map_err closure on its own                                          *)
(*                                                                         *)
(* The closure is a function of the root, the error and the path that      *)
(* serde_path_to_error hands it.  Here it is entered with any error and    *)
(* any path of at most MaxPathLen segments, the segments a decode cannot   *)
(* record (an index past the end, Enum) among them.                        *)
(***************************************************************************)

\* The span shapes of containers, value scalars and key scalars of the
\* trees the closure is run on
BackfillShapes ==
    {<<"both", "start", "end">>, <<"blank", "both", "both">>, <<"end", "blank", "start">>}

BackfillTrees ==
    UNION {{TestDoc(t[1], t[2], t[3]), NestedDoc(t[1], t[2], t[3]),
            SeqSeqDoc(t[1], t[2], t[3]), Scalar(Sp(t[2], 1, 1, 3), Words.five_hundred)} :
           t \in BackfillShapes}

BackfillSegments ==
    {SegSeq(i) : i \in 0..SeqLen}
        \cup {SegMap(k) : k \in {Words.hello, Words.numbers, Words.inner, Words.absent}}
        \cup {SegEnum, SegUnknown}

BackfillPaths == UNION {[1..n -> BackfillSegments] : n \in 0..MaxPathLen}

BackfillErrors ==
    {ErrorCustom("invalid type"),
     ErrorUnknownField(Words.hello, <<Words.success>>),
     ErrorUnknownField(Words.absent, <<Words.success>>),
     ErrorNotBoolean(Sp("end", 9, 9, 1)),
     ErrorNotBoolean(Sp("both", 9, 9, 1))}
        \cup {AddSpans(ErrorFromParseInt("InvalidDigit"), Sp(shape, 9, 9, 1)) :
                shape \in {"blank", "end", "start"}}

InitBackfill ==
    /\ node \in BackfillTrees
    /\ ty = TIgnoredAny
    /\ serde_path = TRUE
    /\ pc = "map_err"
    /\ \E err \in BackfillErrors, path \in BackfillPaths : p2e = Some(Fail(err, path))
    /\ e = NoError /\ p = <<>>
    /\ best_node = NoNode /\ prev_best_node = NoNode /\ seg_i = 0 /\ ret = None
    /\ SdIdle
    /\ CallIdle
    /\ EqIdle

NextBackfill == MapErr \/ ReplaySeg \/ Backfill

SpecBackfill == InitBackfill /\ [][NextBackfill]_vars

(***************************************************************************)
(* A SpannedDeserializer under a caller                                    *)
(*                                                                         *)
(* The caller holds the cursor as a MapAccess and may make its two         *)
(* requests in any order.  It asks for keys as &str and for values as      *)
(* usize while the cursor stands on a coordinate, as sd_ty otherwise.      *)
(***************************************************************************)

\* The types the caller decodes the inner value as
SdTypes == {TU8, TString, TIgnoredAny, TVec(TU8)}

SdValueType == IF Unwrap(sd).state \in CoordinateStates THEN TUsize ELSE sd_ty

\* visitor.next_key()
SDNextKey ==
    /\ sd # None /\ ~sd_panic
    /\ LET r == SpannedNextKeySeed(Unwrap(sd), TStr, <<>>)
           alt == sd_alt /\ sd_last # "key"
       IN  /\ sd' = Some(r.access)
           /\ sd_alt' = alt
           /\ sd_log' = IF alt /\ r.res.ok THEN Append(sd_log, r.res.val) ELSE sd_log
    /\ sd_last' = "key"
    /\ UNCHANGED <<sd_ty, sd_panic>>
    /\ UNCHANGED <<driver_vars, call_vars, eq_vars>>

\* visitor.next_value()
SDNextValue ==
    /\ sd # None /\ ~sd_panic
    /\ LET r == SpannedNextValueSeed(Unwrap(sd), SdValueType, <<>>)
       IN  /\ sd' = Some(r.access)
           /\ sd_panic' = r.res.panic
    /\ sd_alt' = (sd_alt /\ sd_last = "key")
    /\ sd_last' = "value"
    /\ UNCHANGED <<sd_ty, sd_log>>
    /\ UNCHANGED <<driver_vars, call_vars, eq_vars>>

InitSD ==
    /\ DriverIdle
    /\ \E n \in Trees : sd = Some(SpannedDeserializerNew(n))
    /\ sd_ty \in SdTypes
    /\ sd_log = <<>> /\ sd_alt = TRUE /\ sd_last = "none" /\ sd_panic = FALSE
    /\ CallIdle
    /\ EqIdle

NextSD == SDNextKey \/ SDNextValue

SpecSD == InitSD /\ [][NextSD]_vars

(***************************************************************************)
(* The mapping cursor driven by a caller                                   *)
(*                                                                         *)
(* The caller holds a MappingAccess over the entries of a mapping node and *)
(* may make its two requests in any order.  It asks for keys as String and *)
(* for values as sd_ty.  While the requests alternate, sd_log records each *)
(* answer as the cursor returned it; node is the mapping the cursor was    *)
(* made over.                                                              *)
(***************************************************************************)

\* A mapping without entries
EmptyMapping == Mapping(SpanNewBlank, <<>>)

\* visitor.next_key() on a MappingAccess
MANextKey ==
    /\ sd # None /\ ~sd_panic
    /\ LET alt == sd_alt /\ sd_last # "key"
       IN  /\ sd_alt' = alt
           /\ sd_log' = IF alt
                        THEN Append(sd_log, MappingNextKeySeed(Unwrap(sd), TString, <<>>).res)
                        ELSE sd_log
    /\ sd' = Some(MappingNextKeySeed(Unwrap(sd), TString, <<>>).access)
    /\ sd_last' = "key"
    /\ UNCHANGED <<sd_ty, sd_panic>>
    /\ UNCHANGED <<driver_vars, call_vars, eq_vars>>

\* visitor.next_value() on a MappingAccess
MANextValue ==
    /\ sd # None /\ ~sd_panic
    /\ LET alt == sd_alt /\ sd_last = "key"
       IN  /\ sd_alt' = alt
           /\ sd_log' = IF alt /\ ~MappingNextValueSeed(Unwrap(sd), sd_ty, <<>>).res.panic
                        THEN Append(sd_log, MappingNextValueSeed(Unwrap(sd), sd_ty, <<>>).res)
                        ELSE sd_log
    /\ sd' = Some(MappingNextValueSeed(Unwrap(sd), sd_ty, <<>>).access)
    /\ sd_panic' = MappingNextValueSeed(Unwrap(sd), sd_ty, <<>>).res.panic
    /\ sd_last' = "value"
    /\ UNCHANGED sd_ty
    /\ UNCHANGED <<driver_vars, call_vars, eq_vars>>

InitMA ==
    /\ node \in {n \in Trees \cup {EmptyMapping} : n.kind = "Mapping"}
    /\ ty = TIgnoredAny /\ serde_path = FALSE /\ pc = "idle"
    /\ p2e = None /\ e = NoError /\ p = <<>>
    /\ best_node = NoNode /\ prev_best_node = NoNode /\ seg_i = 0 /\ ret = None
    /\ sd = Some(MappingAccessNew(Unwrap(AsMapping(node))))
    /\ sd_ty \in SdTypes
    /\ sd_log = <<>> /\ sd_alt = TRUE /\ sd_last = "none" /\ sd_panic = FALSE
    /\ CallIdle
    /\ EqIdle

NextMA == MANextKey \/ MANextValue

SpecMA == InitMA /\ [][NextMA]_vars

(***************************************************************************)
(* The sequence cursor driven by a caller                                  *)
(*                                                                         *)
(* The caller holds a SequenceAccess over the items of a sequence node and *)
(* asks for elements as sd_ty, going on after a failed element if it       *)
(* likes.  sd_log records the answers up to and with the first "no more    *)
(* elements"; node is the sequence the cursor was made over.               *)
(***************************************************************************)

\* A sequence without items
EmptySequence == Sequence(SpanNewBlank, <<>>)

\* visitor.next_element() on a SequenceAccess
SANextElement ==
    /\ sd # None
    /\ sd' = Some(SeqNextElementSeed(Unwrap(sd), sd_ty, <<>>).access)
    /\ sd_log' = IF Len(sd_log) <= Len(Unwrap(sd).items)
                 THEN Append(sd_log, SeqNextElementSeed(Unwrap(sd), sd_ty, <<>>).res)
                 ELSE sd_log
    /\ sd_last' = "element"
    /\ UNCHANGED <<sd_ty, sd_alt, sd_panic>>
    /\ UNCHANGED <<driver_vars, call_vars, eq_vars>>

InitSA ==
    /\ node \in {n \in Trees \cup {EmptySequence} : n.kind = "Sequence"}
    /\ ty = TIgnoredAny /\ serde_path = FALSE /\ pc = "idle"
    /\ p2e = None /\ e = NoError /\ p = <<>>
    /\ best_node = NoNode /\ prev_best_node = NoNode /\ seg_i = 0 /\ ret = None
    /\ sd = Some(SequenceAccessNew(node.items))
    /\ sd_ty \in SdTypes
    /\ sd_log = <<>> /\ sd_alt = TRUE /\ sd_last = "none" /\ sd_panic = FALSE
    /\ CallIdle
    /\ EqIdle

SpecSA == InitSA /\ [][SANextElement]_vars

(***************************************************************************)
(* Several from_node calls over one tree                                   *)
(*                                                                         *)
(* from_node borrows the tree (node: &Node) and owns everything else it    *)
(* uses, so a caller may decode one tree again and again, and two callers  *)
(* may decode it at once.  The steps of a call are the actions of from_node*)
(* above; the actions below are the callers'.  At most two calls are in    *)
(* flight: the one whose frame is in the driver's variables takes the      *)
(* steps, the frame of the other is kept in `other` until a switch.        *)
(***************************************************************************)

\* A bound on the calls made over one tree
MaxCalls == 3

\* The trees and the target types of the calls
CallTrees ==
    {TestDoc("start", "start", "start"), TestDoc("blank", "end", "blank"),
     NestedDoc("end", "blank", "start"), SeqDoc("blank", "blank", "blank"),
     Scalar(Sp("end", 1, 1, 3), Words.five_hundred)}

CallTypes == {TNumbers, TDeny, TGreeting, TMap(TString, TIgnoredAny)}

\* The frame of the running call
Frame ==
    [ty |-> ty, pc |-> pc, p2e |-> p2e, e |-> e, p |-> p, best_node |-> best_node,
     prev_best_node |-> prev_best_node, seg_i |-> seg_i, ret |-> ret]

\* The frame f becomes the running call's
Resume(f) ==
    /\ ty' = f.ty /\ pc' = f.pc /\ p2e' = f.p2e /\ e' = f.e /\ p' = f.p
    /\ best_node' = f.best_node /\ prev_best_node' = f.prev_best_node
    /\ seg_i' = f.seg_i /\ ret' = f.ret

\* from_node::<T>(node) is entered with a frame of its own
Enter ==
    /\ ty' \in CallTypes
    /\ pc' = "start"
    /\ p2e' = None /\ e' = NoError /\ p' = <<>>
    /\ best_node' = NoNode /\ prev_best_node' = NoNode /\ seg_i' = 0 /\ ret' = None

\* The calls made so far
Started == Len(calls) + (IF pc = "idle" THEN 0 ELSE 1) + (IF other = None THEN 0 ELSE 1)

\* A caller calls from_node while no call is in flight
Call ==
    /\ pc = "idle" /\ other = None
    /\ Started < MaxCalls
    /\ Enter
    /\ mixed' = FALSE
    /\ UNCHANGED <<node, serde_path, calls, other>>
    /\ UNCHANGED <<sd_vars, eq_vars>>

\* A second caller calls from_node while a call is in flight
Spawn ==
    /\ pc \notin {"idle", "done"} /\ other = None
    /\ Started < MaxCalls
    /\ other' = Some(Frame)
    /\ Enter
    /\ mixed' = TRUE
    /\ UNCHANGED <<node, serde_path, calls>>
    /\ UNCHANGED <<sd_vars, eq_vars>>

\* Switch as if the closure's error and path were shared by the calls
SwitchSharesError ==
    /\ pc # "idle" /\ other # None
    /\ other' = Some(Frame)
    /\ ty' = Unwrap(other).ty /\ pc' = Unwrap(other).pc /\ p2e' = Unwrap(other).p2e
    /\ best_node' = Unwrap(other).best_node
    /\ prev_best_node' = Unwrap(other).prev_best_node
    /\ seg_i' = Unwrap(other).seg_i /\ ret' = Unwrap(other).ret
    /\ mixed' = TRUE
    /\ UNCHANGED <<node, serde_path, calls, e, p>>
    /\ UNCHANGED <<sd_vars, eq_vars>>

\* The next step is the other call's
Switch ==
    /\ pc # "idle" /\ other # None
    /\ other' = Some(Frame)
    /\ Resume(Unwrap(other))
    /\ mixed' = TRUE
    /\ UNCHANGED <<node, serde_path, calls>>
    /\ UNCHANGED <<sd_vars, eq_vars>>

\* The running call returns to its caller; a call left in flight runs on
Return ==
    /\ pc = "done"
    /\ calls' = Append(calls, [ty |-> ty, ret |-> Unwrap(ret), mixed |-> mixed])
    /\ IF other # None
       THEN /\ Resume(Unwrap(other))
            /\ other' = None
            /\ mixed' = TRUE
       ELSE /\ pc' = "idle"
            /\ UNCHANGED <<ty, p2e, e, p, best_node, prev_best_node, seg_i, ret, other, mixed>>
    /\ UNCHANGED <<node, serde_path>>
    /\ UNCHANGED <<sd_vars, eq_vars>>

InitCalls ==
    /\ node \in CallTrees
    /\ serde_path \in BOOLEAN
    /\ ty = TIgnoredAny /\ pc = "idle"
    /\ p2e = None /\ e = NoError /\ p = <<>>
    /\ best_node = NoNode /\ prev_best_node = NoNode /\ seg_i = 0 /\ ret = None
    /\ SdIdle
    /\ CallIdle
    /\ EqIdle

\* One call after the other
NextSeq == Call \/ Decode \/ MapErr \/ ReplaySeg \/ Backfill \/ Return

SpecSeq == InitCalls /\ [][NextSeq]_vars

\* Two calls at once as well
NextCalls == NextSeq \/ Spawn \/ Switch

SpecCalls == InitCalls /\ [][NextCalls]_vars

(***************************************************************************)
(* Span-wrapper values compared and hashed                                 *)
(*                                                                         *)
(* A caller holds three Spanned<T> values of one type T, with any spans    *)
(* and any inner values, compares them with == and feeds two of them to a  *)
(* Hasher.                                                                 *)
(***************************************************************************)

\* The spans of the values
EqSpans == {SpanNewBlank, Sp("start", 1, 1, 1), Sp("both", 2, 3, 4)}

\* The inner values, type by type: u8, String, Vec<Spanned<u8>>
EqInners ==
    {{VInt(0), VInt(1)},
     {VStr(Words.hello), VStr(Words.world)},
     {VSeq(<<SpannedNew(s, VInt(i))>>) : s \in {SpanNewBlank, Sp("end", 5, 5, 1)}, i \in {0, 1}}
        \cup {VSeq(<<>>)}}

\* x == y, x == x and so on, and the feeds of x and y
Compare ==
    /\ eq_in # <<>> /\ eq_out = None
    /\ eq_out' = Some([xx |-> KeyEq(eq_in[1], eq_in[1]),
                       xy |-> KeyEq(eq_in[1], eq_in[2]),
                       yx |-> KeyEq(eq_in[2], eq_in[1]),
                       yz |-> KeyEq(eq_in[2], eq_in[3]),
                       xz |-> KeyEq(eq_in[1], eq_in[3]),
                       hx |-> HashWrites(eq_in[1]),
                       hy |-> HashWrites(eq_in[2])])
    /\ UNCHANGED eq_in
    /\ UNCHANGED <<driver_vars, sd_vars, call_vars>>

InitEq ==
    /\ DriverIdle
    /\ SdIdle
    /\ CallIdle
    /\ \E pool \in EqInners :
          eq_in \in {<<SpannedNew(s[1], a[1]), SpannedNew(s[2], a[2]), SpannedNew(s[3], a[3])>> :
                        s \in [1..3 -> EqSpans], a \in [1..3 -> pool]}
    /\ eq_out = None

SpecEq == InitEq /\ [][Compare]_vars

(***************************************************************************)
(* C1: the keys of a cursor driven by alternating requests                 *)
(***************************************************************************)

\* The keys the claim lists for a span, "no more entries" last
ExpectedKeys(span) ==
    (IF IsSome(span.start)
     THEN <<Some(VStr(SPANNED_SPAN_START_SOURCE)), Some(VStr(SPANNED_SPAN_START_LINE)),
            Some(VStr(SPANNED_SPAN_START_COLUMN))>>
     ELSE <<>>)
    \o (IF IsSome(span.end)
        THEN <<Some(VStr(SPANNED_SPAN_END_SOURCE)), Some(VStr(SPANNED_SPAN_END_LINE)),
               Some(VStr(SPANNED_SPAN_END_COLUMN))>>
        ELSE <<>>)
    \o <<Some(VStr(SPANNED_INNER)), None>>

\* C1: while the requests on a cursor alternate key, value from its
\* initial state, the keys it has yielded are the first so many of: the
\* three start fields iff the node's span has a start marker, the three end
\* fields iff it has an end marker, the inner-value key, "no more entries";
\* every key request is answered, and no value request aborts before "no
\* more entries" has been yielded.
C1_KeysInOrder ==
    (sd # None /\ sd_alt) =>
        LET exp == ExpectedKeys(Unwrap(sd).node.span)
            keys == Len(sd_log)
        IN  /\ keys <= Len(exp)
            /\ sd_log = SubSeq(exp, 1, keys)
            /\ sd_last = "key" => keys >= 1
            /\ sd_panic => keys = Len(exp)
            /\ Unwrap(sd).state = "Done" => keys >= Len(exp) - 1

\* A cursor over a node with both markers has yielded all eight answers
C1_Witness ==
    /\ sd # None /\ sd_alt
    /\ ShapeOf(Unwrap(sd).node.span) = "both"
    /\ Len(sd_log) = 8
    /\ sd_log[8] = None

(***************************************************************************)
(* C2: Spanned<T> through from_node                                        *)
(***************************************************************************)

\* from_node has returned, and T is Spanned<U>
SpannedDone == pc = "done" /\ ty.t = "Spanned" /\ IsSome(ret)

\* C2: when from_node decodes a node as Spanned<U>, it succeeds exactly when
\* decoding the same node as U succeeds, and then the wrapper's span is the
\* node's span, start marker and end marker each equal to the node's or
\* absent with it, and the wrapper's inner value is the value the node
\* decodes to as U.
C2_SpannedIsNodeSpanAndInner ==
    SpannedDone =>
        LET direct == Deserialize(node, ty.elem, <<>>)
            got == Unwrap(ret)
        IN  /\ got.ok = direct.ok
            /\ got.ok =>
                  /\ got.val.t = "spanned"
                  /\ got.val.span.start = node.span.start
                  /\ got.val.span.end = node.span.end
                  /\ got.val.inner = direct.val

\* A mapping with both markers has been decoded as Spanned<struct>
C2_Witness ==
    /\ SpannedDone /\ Unwrap(ret).ok
    /\ node.kind = "Mapping"
    /\ ShapeOf(node.span) = "both"
    /\ ty.elem.t = "Struct"
    /\ Unwrap(ret).val.span = node.span

(***************************************************************************)
(* C3: the span of a numeral parse failure                                 *)
(***************************************************************************)

\* from_node has returned an error
Failed == pc = "done" /\ IsSome(ret) /\ ~Unwrap(ret).ok /\ ~Unwrap(ret).panic

ParseFailures == {"IntegerParseFailure", "FloatParseFailure"}

\* The root is a scalar whose text is no numeral of the requested type
RootNotNumeral ==
    /\ node.kind = "Scalar"
    /\ \/ ty.t \in IntTypes /\ ~ParseIntAs(node.text, ty.t).ok
       \/ ty.t = "F64" /\ ~ParseFloat(node.text).ok

RootFailureKind == IF ty.t = "F64" THEN "FloatParseFailure" ELSE "IntegerParseFailure"

\* C3 as the claim has it: a numeral request on a scalar that does not
\* parse fails with the parse failure of the request, and a parse failure
\* from_node returns carries the span of the scalar it was raised at.
C3_Original ==
    /\ (pc = "done" /\ RootNotNumeral) =>
            Failed /\ Unwrap(ret).err.kind = RootFailureKind
    /\ (Failed /\ Unwrap(ret).err.kind \in ParseFailures) =>
            /\ IsSome(Unwrap(ret).err.origin)
            /\ Unwrap(ret).err.span = Unwrap(Unwrap(ret).err.origin)

\* C3 amended: a numeral request on a scalar that does not parse fails with
\* the parse failure of the request; the error from_node returns carries
\* the span of the scalar it was raised at when that span has a start
\* marker or the build has no path tracking; with path tracking a parse
\* failure raised at a scalar whose span has no start marker has had its
\* span set a second time, by the backfill.
C3_ParseFailureSpan ==
    /\ (pc = "done" /\ RootNotNumeral) =>
            Failed /\ Unwrap(ret).err.kind = RootFailureKind
    /\ (Failed /\ Unwrap(ret).err.kind \in ParseFailures) =>
            LET err == Unwrap(ret).err
            IN  /\ IsSome(err.origin)
                /\ IF ~serde_path \/ IsSome(Unwrap(err.origin).start)
                   THEN err.span = Unwrap(err.origin) /\ err.sets = 1
                   ELSE err.sets = 2

\* The element 500 of a sequence decoded as Vec<u8> has failed, with the
\* element's span (which has a start marker) on the error
C3_Witness ==
    /\ Failed /\ serde_path
    /\ node.kind = "Sequence" /\ ty = TVec(TU8)
    /\ Unwrap(ret).err.kind = "IntegerParseFailure"
    /\ Unwrap(ret).path = <<SegSeq(SeqLen - 1)>>
    /\ IsSome(Unwrap(ret).err.span.start)
    /\ Unwrap(ret).err.span = node.items[SeqLen].span

(***************************************************************************)
(* C4: what the replay resolves                                            *)
(***************************************************************************)

\* The closure has returned after replaying the path: set_span has been
\* applied once more than when the error reached it
BackfillRan ==
    /\ pc = "done" /\ IsSome(ret) /\ IsSome(p2e)
    /\ ~Unwrap(p2e).ok /\ ~Unwrap(p2e).panic
    /\ Unwrap(ret).err.sets = Unwrap(p2e).err.sets + 1

\* The claim's reading of one segment: a sequence index leads into a
\* sequence node when it is in range, a mapping key into a mapping node
\* when the key is present; nothing else leads anywhere
Leads(n, seg) ==
    \/ seg.seg = "Seq" /\ n.kind = "Sequence" /\ seg.index < Len(n.items)
    \/ seg.seg = "Map" /\ n.kind = "Mapping"
           /\ \E i \in 1..Len(n.entries) : n.entries[i].k.text = seg.key

Follow(n, seg) ==
    IF seg.seg = "Seq" THEN n.items[seg.index + 1]
    ELSE n.entries[CHOOSE i \in 1..Len(n.entries) : n.entries[i].k.text = seg.key].v

\* The node at the end of the longest prefix of `path` that leads
\* somewhere from n, and the length of that prefix
RECURSIVE DeepestResolved(_, _)
DeepestResolved(n, path) ==
    IF path = <<>> \/ ~Leads(n, Head(path)) THEN n
    ELSE DeepestResolved(Follow(n, Head(path)), Tail(path))

RECURSIVE ResolvedLen(_, _)
ResolvedLen(n, path) ==
    IF path = <<>> \/ ~Leads(n, Head(path)) THEN 0
    ELSE 1 + ResolvedLen(Follow(n, Head(path)), Tail(path))

\* C4: the replay follows the path from the root and stops at the first
\* segment that does not resolve: while it runs it stands on the node the
\* segments so far lead to, it leaves the loop on the first segment that
\* leads nowhere, and for every error kind but UnknownFieldError the span
\* of the returned error is the span of the node at the end of the longest
\* resolvable prefix.
C4_ReplayStopsAtFirstUnresolved ==
    /\ pc = "replay" =>
            /\ ResolvedLen(node, p) >= seg_i
            /\ best_node = DeepestResolved(node, SubSeq(p, 1, seg_i))
    /\ pc = "span" =>
            /\ ResolvedLen(node, p) = seg_i - 1
            /\ best_node = DeepestResolved(node, p)
    /\ (BackfillRan /\ Unwrap(ret).err.kind # "UnknownFieldError") =>
            Unwrap(ret).err.span = DeepestResolved(node, Unwrap(ret).path).span

\* The replay has stopped on the second segment of a path whose first
\* resolved to a node with a start marker, and the error has that span
C4_Witness ==
    /\ BackfillRan
    /\ Unwrap(ret).err.kind = "Other"
    /\ Len(Unwrap(ret).path) = 2
    /\ ResolvedLen(node, Unwrap(ret).path) = 1
    /\ IsSome(Unwrap(ret).err.span.start)
    /\ Unwrap(ret).err.span # node.span

(***************************************************************************)
(* C7: the closure terminates and keeps the error                          *)
(***************************************************************************)

\* How many steps the closure has left at most
BackfillMeasure ==
    CASE pc = "map_err" -> Len(Unwrap(p2e).path) + 2
      [] pc = "replay"  -> Len(p) - seg_i + 1
      [] pc = "span"    -> 1
      [] pc = "done"    -> 0

BackfillSteady ==
    /\ pc \in {"map_err", "replay", "span", "done"}
    /\ seg_i <= Len(p)
    /\ pc # "done" => ENABLED NextBackfill
    /\ pc = "done" =>
          /\ IsSome(ret) /\ ~Unwrap(ret).ok /\ ~Unwrap(ret).panic
          /\ ErrorPayload(Unwrap(ret).err) = ErrorPayload(Unwrap(p2e).err)
          /\ Unwrap(ret).path = Unwrap(p2e).path

\* C7: for every tree, path and error the closure returns: it is never
\* stuck before it has returned, every step brings it closer to returning,
\* the loop has run at most once per segment of the path, and what is
\* returned is an error of the original kind and payload with the
\* original path.
C7_BackfillTerminates ==
    /\ []BackfillSteady
    /\ [][BackfillMeasure' < BackfillMeasure]_vars

\* The loop has run once for each segment of a path of MaxPathLen
\* segments, and the error has been returned
C7_Witness ==
    /\ BackfillRan
    /\ Len(Unwrap(ret).path) = MaxPathLen
    /\ seg_i = MaxPathLen
    /\ ResolvedLen(node, Unwrap(ret).path) = MaxPathLen
    /\ ErrorPayload(Unwrap(ret).err) = ErrorPayload(Unwrap(p2e).err)

(***************************************************************************)
(* C5: the span of an unknown-field error                                  *)
(***************************************************************************)

\* T, or U when T is Spanned<U>
Unspanned(t) == IF t.t = "Spanned" THEN t.elem ELSE t

\* The root is a mapping whose first key is none of the fields of the
\* struct it is decoded as, and the struct denies unknown fields
DenyRoot ==
    /\ node.kind = "Mapping" /\ Len(node.entries) >= 1
    /\ Unspanned(ty).t = "Struct" /\ Unspanned(ty).deny
    /\ \A i \in 1..Len(Unspanned(ty).fields) :
            Unspanned(ty).fields[i].name # node.entries[1].k.text

\* C5 as the claim has it: such a decode fails with UnknownFieldError, and
\* the span of the returned error is the span of the first key's scalar.
C5_Original ==
    (pc = "done" /\ DenyRoot) =>
        /\ Failed
        /\ Unwrap(ret).err.kind = "UnknownFieldError"
        /\ Unwrap(ret).err.span = node.entries[1].k.span

\* C5 amended: such a decode fails with UnknownFieldError naming the first
\* key; with path tracking the span of the returned error is the span of
\* that key's scalar, without path tracking it is blank.
C5_UnknownFieldSpan ==
    (pc = "done" /\ DenyRoot) =>
        /\ Failed
        /\ Unwrap(ret).err.kind = "UnknownFieldError"
        /\ Unwrap(ret).err.field = node.entries[1].k.text
        /\ Unwrap(ret).err.span =
              IF serde_path THEN node.entries[1].k.span ELSE SpanNewBlank

\* With path tracking the error carries the first key's span, which has a
\* start marker and is not the span of the key's value
C5_Witness ==
    /\ pc = "done" /\ DenyRoot /\ serde_path /\ Failed
    /\ Unwrap(ret).path = <<SegMap(node.entries[1].k.text)>>
    /\ IsSome(node.entries[1].k.span.start)
    /\ Unwrap(ret).err.span = node.entries[1].k.span
    /\ Unwrap(ret).err.span # node.entries[1].v.span

(***************************************************************************)
(* C6: a path of which nothing resolves                                    *)
(***************************************************************************)

\* The key spans of mapping n whose key is `field`
KeySpansNamed(n, field) ==
    IF n.kind = "Mapping"
    THEN {n.entries[i].k.span : i \in {j \in 1..Len(n.entries) : n.entries[j].k.text = field}}
    ELSE {}

\* C6 as the claim has it: when no segment of the path resolves, the span
\* of the error is after the backfill what it was before
C6_Original ==
    (BackfillRan /\ ResolvedLen(node, Unwrap(ret).path) = 0) =>
        Unwrap(ret).err.span = Unwrap(p2e).err.span

\* C6 amended: when no segment of the path resolves (the empty path
\* included), the span of the error is after the backfill the span of the
\* root node, or for an UnknownFieldError whose field is a key of the root
\* mapping the span of that key
C6_NothingResolvesGivesRootSpan ==
    (BackfillRan /\ ResolvedLen(node, Unwrap(ret).path) = 0) =>
        LET err == Unwrap(ret).err
            keys == KeySpansNamed(node, err.field)
        IN  IF err.kind = "UnknownFieldError" /\ keys # {}
            THEN err.span \in keys
            ELSE err.span = node.span

\* An error with a blank span and an empty path has come back with the
\* root's span, which has a start marker
C6_Witness ==
    /\ BackfillRan
    /\ Unwrap(ret).path = <<>>
    /\ Unwrap(p2e).err.span = SpanNewBlank
    /\ Unwrap(ret).err.span = node.span
    /\ IsSome(node.span.start)

(***************************************************************************)
(* C8: which errors the backfill leaves alone                              *)
(***************************************************************************)

\* The decode has failed and from_node has returned; Raised is the error
\* as the decode raised it
DecodeFailed == Failed /\ IsSome(p2e) /\ ~Unwrap(p2e).ok /\ ~Unwrap(p2e).panic
Raised == Unwrap(p2e).err

\* The error and path from_node returned are those the decode raised
ReturnedAsRaised ==
    /\ Unwrap(ret).err = Raised
    /\ serde_path => Unwrap(ret).path = Unwrap(p2e).path

\* C8 as the claim has it: an error raised with a span that is not blank
\* is returned with span, kind, payload and path unchanged
C8_Original ==
    (DecodeFailed /\ Raised.span # SpanNewBlank) => ReturnedAsRaised

\* C8 amended: an error raised with a span that has a start marker is
\* returned with span, kind, payload and path unchanged; with path
\* tracking an error raised without a start marker, its span blank or with
\* an end marker only, has its span set by the backfill, kind, payload and
\* path unchanged
C8_StartMarkedErrorsUntouched ==
    DecodeFailed =>
        /\ IsSome(Raised.span.start) => ReturnedAsRaised
        /\ ~serde_path => ReturnedAsRaised
        /\ (serde_path /\ IsNone(Raised.span.start)) =>
              /\ BackfillRan
              /\ ErrorPayload(Unwrap(ret).err) = ErrorPayload(Raised)
              /\ Unwrap(ret).path = Unwrap(p2e).path

\* With path tracking, an error raised with a start marker has come back
\* as it was
C8_Witness ==
    /\ DecodeFailed /\ serde_path
    /\ IsSome(Raised.span.start)
    /\ Len(Unwrap(p2e).path) >= 1
    /\ ReturnedAsRaised

(***************************************************************************)
(* C9: errors of location-unaware code                                     *)
(***************************************************************************)

\* The kinds serde's custom and unknown_field and the conversions from the
\* parse errors construct
UnawareKinds == {"Other", "UnknownFieldError", "IntegerParseFailure", "FloatParseFailure"}

\* The nodes the path leads through from n, n among them
RECURSIVE NodesOnPath(_, _)
NodesOnPath(n, path) ==
    IF path = <<>> \/ ~Leads(n, Head(path)) THEN {n}
    ELSE {n} \cup NodesOnPath(Follow(n, Head(path)), Tail(path))

\* The node the last resolving segment of the path starts from
ParentOfDeepest(n, path) ==
    IF ResolvedLen(n, path) = 0 THEN n
    ELSE DeepestResolved(n, SubSeq(path, 1, ResolvedLen(n, path) - 1))

\* C9 as the claim has it: every error of location-unaware code has had
\* the backfill applied when from_node returns it, and none is returned
\* without a start marker while a node on its path has one
C9_Original ==
    (DecodeFailed /\ Raised.kind \in UnawareKinds) =>
        /\ BackfillRan
        /\ IsNone(Unwrap(ret).err.span.start) =>
              \A n \in NodesOnPath(node, Unwrap(p2e).path) : IsNone(n.span.start)

\* C9 amended: an error of location-unaware code to which no node
\* deserializer has given a span reaches the driver with a blank span; with
\* path tracking every error that reaches the driver without a start marker
\* has the backfill applied before it is returned and then carries the span
\* of the deepest node its path resolves to (for an UnknownFieldError
\* possibly the span of a key of that name in the mapping that node was
\* reached from), so it has a start marker exactly when that span has one;
\* without path tracking every error is returned as it was raised
C9_BackfillWhereNoStartMark ==
    DecodeFailed =>
        /\ (Raised.kind \in UnawareKinds /\ IsNone(Raised.origin)) =>
              Raised.span = SpanNewBlank /\ Raised.sets = 0
        /\ (serde_path /\ IsNone(Raised.span.start)) =>
              /\ BackfillRan
              /\ \/ Unwrap(ret).err.span = DeepestResolved(node, Unwrap(p2e).path).span
                 \/ /\ Raised.kind = "UnknownFieldError"
                    /\ Unwrap(ret).err.span \in
                          KeySpansNamed(ParentOfDeepest(node, Unwrap(p2e).path), Raised.field)
        /\ (~serde_path \/ IsSome(Raised.span.start)) => ReturnedAsRaised

\* With path tracking a custom error has come back with a start marker it
\* was raised without
C9_Witness ==
    /\ DecodeFailed /\ serde_path /\ BackfillRan
    /\ Raised.kind = "Other" /\ Raised.span = SpanNewBlank
    /\ Len(Unwrap(p2e).path) >= 1
    /\ IsSome(Unwrap(ret).err.span.start)

(***************************************************************************)
(* C10: how often set_span is applied to an error                          *)
(***************************************************************************)

\* C10 as the claim has it: set_span has been applied to a returned error
\* at most once, and then by the backfill
C10_Original ==
    Failed =>
        /\ Unwrap(ret).err.sets <= 1
        /\ Unwrap(ret).err.sets = 1 => BackfillRan

\* C10 amended: set_span is applied to an error at most twice: once by
\* addspans where a numeral parse failure is raised at a scalar, and once by
\* the backfill when, with path tracking, the error reaches the driver
\* without a start marker; no other error kind is written before the
\* backfill
C10_SpanWrites ==
    DecodeFailed =>
        /\ Raised.sets = IF Raised.kind \in ParseFailures THEN 1 ELSE 0
        /\ Unwrap(ret).err.sets =
              Raised.sets + IF serde_path /\ IsNone(Raised.span.start) THEN 1 ELSE 0

\* A parse failure raised at a scalar without a start marker has had its
\* span set twice
C10_Witness ==
    /\ DecodeFailed /\ BackfillRan
    /\ Unwrap(ret).err.kind \in ParseFailures
    /\ Unwrap(ret).err.sets = 2

(***************************************************************************)
(* C11: a mapping cursor driven by alternating requests                    *)
(***************************************************************************)

\* The answers a cursor over entries owes to alternating requests: for each
\* entry in insertion order its key, then its value decoded as valTy, and
\* "no more entries" last
ExpectedAnswers(entries, valTy) ==
    [i \in 1..(2 * Len(entries) + 1) |->
        IF i = 2 * Len(entries) + 1 THEN Ok(None)
        ELSE IF i % 2 = 1 THEN Ok(Some(VStr(entries[(i + 1) \div 2].k.text)))
        ELSE Deserialize(entries[i \div 2].v, valTy,
                         <<SegMap(entries[i \div 2].k.text)>>)]

\* C11: while the requests on a mapping cursor alternate key, value from
\* its initial state, the answers it has given are the first so many of:
\* key and value of the first entry, key and value of the second, and so on
\* in insertion order, of the mapping the cursor was made over, then "no
\* more entries"; every request is answered, and none aborts before "no more
\* entries" has been yielded.
C11_EntriesInInsertionOrder ==
    (sd # None /\ sd_alt) =>
        LET exp == ExpectedAnswers(node.entries, sd_ty)
            answers == Len(sd_log)
        IN  /\ answers <= Len(exp)
            /\ sd_log = SubSeq(exp, 1, answers)
            /\ sd_last = "key" => answers % 2 = 1
            /\ (sd_last = "value" /\ ~sd_panic) => (answers % 2 = 0 /\ answers >= 2)
            /\ sd_panic => answers = Len(exp)

\* A cursor over three entries has given all seven answers
C11_Witness ==
    /\ sd # None /\ sd_alt
    /\ Len(node.entries) = 3
    /\ Len(sd_log) = 7
    /\ sd_log[7] = Ok(None)
    /\ sd_log[6].ok

(***************************************************************************)
(* C12: a value request that no key request precedes                       *)
(***************************************************************************)

\* C12: every value request on a mapping cursor that does not directly
\* follow a key request aborts, whatever state the cursor is in.
C12_ValueBeforeKeyAborts ==
    [][(sd_last' = "value" /\ sd_last # "key") => sd_panic']_vars

(***************************************************************************)
(* C13: two decodes of one tree                                            *)
(***************************************************************************)

C14_TreeUnchanged == [][node' = node]_vars

\* Over a mapping a call has returned a value and a call has returned an
\* error that the backfill has written to
C14_Witness ==
    /\ node.kind = "Mapping"
    /\ \E i, j \in 1..Len(calls) :
          /\ calls[i].ret.ok
          /\ ~calls[j].ret.ok /\ ~calls[j].ret.panic /\ calls[j].ret.err.sets >= 1

(***************************************************************************)
(* C15: two calls at once                                                  *)
(***************************************************************************)

C16_BoolOrNotBoolean ==
    (pc # "start" /\ node.kind = "Scalar" /\ ty = TBool) =>
        IF IsSome(AsBool(node.text))
        THEN Unwrap(p2e) = Ok(VBool(Unwrap(AsBool(node.text))))
        ELSE /\ ~Unwrap(p2e).ok /\ ~Unwrap(p2e).panic
             /\ Unwrap(p2e).err.kind = "NotBoolean"
             /\ Unwrap(p2e).err.span = node.span

\* 500 with both markers was requested as bool and refused
C16_Witness ==
    /\ pc # "start" /\ node.kind = "Scalar" /\ ty = TBool
    /\ node.text = Words.five_hundred /\ ShapeOf(node.span) = "both"
    /\ ~Unwrap(p2e).ok

(***************************************************************************)
(* C17: numerals decoded as integers                                       *)
(***************************************************************************)

\* C17: a scalar root whose text is the decimal numeral of v, decoded as an
\* integer type, gives v when v lies within the range of the type, and
\* fails with IntegerParseFailure when it lies outside: no other number is
\* given in its place.
C17_NumeralDecodesToItsValue ==
    (pc # "start" /\ node.kind = "Scalar" /\ ty \in NumeralTypes) =>
        \A v \in NumeralValues :
            node.text = IntToString(v) =>
                IF IntLo(ty.t) <= v /\ v <= IntHi(ty.t)
                THEN Unwrap(p2e) = Ok(VInt(v))
                ELSE /\ ~Unwrap(p2e).ok /\ ~Unwrap(p2e).panic
                     /\ Unwrap(p2e).err.kind = "IntegerParseFailure"

\* -32768, the least i16, was decoded as i16
C17_Witness ==
    /\ pc = "done" /\ node.kind = "Scalar"
    /\ ty = TI16 /\ node.text = IntToString(-32768)
    /\ Unwrap(p2e) = Ok(VInt(-32768))

(***************************************************************************)
(* C18: the path reported with a failure                                   *)
(***************************************************************************)

\* `path` is a sequence of traversal steps from the root that ends where
\* `err` was raised: every segment is a mapping key or a sequence index
\* that leads on from the node before it; an error raised at a scalar was
\* raised at the node the path leads to, and an unknown field is the last
\* key of the path.
StepsToFailure(path, err) ==
    /\ \A i \in 1..Len(path) : path[i].seg \in {"Map", "Seq"}
    /\ ResolvedLen(node, path) = Len(path)
    /\ IsSome(err.origin) => DeepestResolved(node, path).span = Unwrap(err.origin)
    /\ err.kind = "UnknownFieldError" =>
            (Len(path) >= 1 /\ path[Len(path)] = SegMap(err.field))

\* `path` without the segments of the reserved inner-value key
RECURSIVE StripInner(_)
StripInner(path) ==
    IF path = <<>> THEN <<>>
    ELSE IF Head(path) = SegMap(SPANNED_INNER) THEN StripInner(Tail(path))
    ELSE <<Head(path)>> \o StripInner(Tail(path))

\* The target types that decode mapping keys as something else than a string
RECURSIVE NonStringKeys(_)
NonStringKeys(t) ==
    CASE t.t = "Map" -> t.key.t \notin {"String", "Str"} \/ NonStringKeys(t.val)
      [] t.t \in {"Spanned", "Vec", "Option"} -> NonStringKeys(t.elem)
      [] t.t = "Struct" -> \E i \in 1..Len(t.fields) : NonStringKeys(t.fields[i].ty)
      [] OTHER -> FALSE

\* C18 as the claim has it: with path-tracking, the path returned with a
\* failure is the sequence of traversal steps from the root to the node
\* that was being decoded.
C18_Original ==
    (Failed /\ serde_path) => StepsToFailure(Unwrap(ret).path, Unwrap(ret).err)

\* C18 amended: with path-tracking, and mapping keys decoded as strings,
\* the path returned with a failure is that sequence of steps with one more
\* segment, the reserved inner-value key, at every span wrapper the decode
\* went through on its way; without a span wrapper on the way the path is
\* the steps alone.
C18_PathIsStepsAndInnerKeys ==
    (Failed /\ serde_path /\ ~NonStringKeys(ty)) =>
        /\ StepsToFailure(StripInner(Unwrap(ret).path), Unwrap(ret).err)
        /\ ty \in {TNumbers, TDeny, TGreeting, TVec(TU8)} =>
                StripInner(Unwrap(ret).path) = Unwrap(ret).path

\* The last number of the sequence under `numbers` was refused as u8 and the path
\* is numbers[SeqLen - 1]
C18_Witness ==
    /\ Failed /\ serde_path /\ ty = TNumbers
    /\ Unwrap(ret).path = <<SegMap(Words.numbers), SegSeq(SeqLen - 1)>>
    /\ Unwrap(ret).err.kind = "IntegerParseFailure"

(***************************************************************************)
(* C19: an option request                                                  *)
(***************************************************************************)

\* C19: decoding a root of any kind as Option<U> gives Some of what
\* decoding the same node as U gives, and the failure of that decode when
\* it fails; it never gives None, whatever the node holds.
C19_OptionIsPresent ==
    (pc # "start" /\ ty.t = "Option") =>
        /\ Unwrap(p2e) # Ok(VNone)
        /\ Unwrap(p2e).ok =>
                /\ Deserialize(node, ty.elem, <<>>).ok
                /\ Unwrap(p2e).val = VSome(Deserialize(node, ty.elem, <<>>).val)
        /\ ~Unwrap(p2e).ok => Unwrap(p2e) = Deserialize(node, ty.elem, <<>>)

\* The null scalar ~ was decoded as Option<bool>: bool was asked of it and
\* refused
C19_Witness ==
    /\ pc = "done" /\ ty = TOption(TBool)
    /\ node.kind = "Scalar" /\ node.text = Words.null
    /\ ~Unwrap(p2e).ok /\ Unwrap(p2e).err.kind = "NotBoolean"

(***************************************************************************)
(* C20: which struct requests reach the span cursor                        *)
(***************************************************************************)

\* The name and the field list of the struct request `t` makes
RequestName(t) == IF t.t = "Spanned" THEN SPANNED_TYPE ELSE t.name
RequestFields(t) == IF t.t = "Spanned" THEN SPANNED_FIELDS ELSE FieldNames(t)

\* C20: decoding a root of any kind as a struct is the visit of a span
\* cursor over the node when the requested name is the reserved name and
\* the requested fields are the seven reserved fields in their order, and
\* is what an 'any' request on the node gives in every other case.
C20_SpanCursorIffNameAndFields ==
    (pc # "start" /\ ty.t \in {"Struct", "Spanned"}) =>
        IF RequestName(ty) = SPANNED_TYPE /\ RequestFields(ty) = SPANNED_FIELDS
        THEN Unwrap(p2e) = VisitMap(ty, SpannedDeserializerNew(node), <<>>)
        ELSE Unwrap(p2e) = DeserializeAny(node, ty, <<>>)

\* A struct with the reserved name and a field `hello` of its own was
\* decoded from a mapping by its own key
C20_Witness ==
    /\ pc = "done" /\ ty.t = "Struct" /\ ty.name = SPANNED_TYPE
    /\ FieldNames(ty) = <<Words.hello>>
    /\ node.kind = "Mapping"
    /\ Unwrap(p2e).ok

(***************************************************************************)
(* C21: equality and hashing of span-wrapper values                        *)
(***************************************************************************)

\* A value with the span of every Spanned in it forgotten
RECURSIVE Peel(_)
Peel(v) ==
    IF v.t = "spanned" THEN Peel(v.inner)
    ELSE IF v.t = "seq" THEN [t |-> "seq", items |-> [i \in 1..Len(v.items) |-> Peel(v.items[i])]]
    ELSE v

\* C21: Spanned(s1, a) == Spanned(s2, b) exactly when a and b are equal,
\* whatever the spans; Spanned values with the same inner value feed a
\* Hasher the same, and so do any two that compare equal; and == on them
\* is reflexive, symmetric and transitive.
C21_EqAndHashByInner ==
    eq_out # None =>
        LET x == eq_in[1]
            y == eq_in[2]
            out == Unwrap(eq_out)
        IN  /\ out.xy <=> Peel(x.inner) = Peel(y.inner)
            /\ x.inner = y.inner => out.hx = out.hy
            /\ out.xy => out.hx = out.hy
            /\ out.xx
            /\ out.xy <=> out.yx
            /\ (out.xy /\ out.yz) => out.xz

\* Two values with different spans and the same inner value compared equal
\* and fed their hashers the same
C21_Witness ==
    /\ eq_out # None
    /\ eq_in[1].span # eq_in[2].span /\ eq_in[1].inner = eq_in[2].inner
    /\ eq_in[1].inner = VStr(Words.hello)
    /\ Unwrap(eq_out).xy /\ Unwrap(eq_out).hx = Unwrap(eq_out).hy

(***************************************************************************)
(* C22: the order of the span cursor's states                              *)
(***************************************************************************)

\* The place of a state in the order SendStartSource, ..., SendValue, Done
StateRank(state) ==
    CASE state = "SendStartSource" -> 1
      [] state = "SendStartLine"   -> 2
      [] state = "SendStartColumn" -> 3
      [] state = "SendEndSource"   -> 4
      [] state = "SendEndLine"     -> 5
      [] state = "SendEndColumn"   -> 6
      [] state = "SendValue"       -> 7
      [] state = "Done"            -> 8

\* The state a cursor over a span of each shape is made in
ShapeStart(span) ==
    CASE ShapeOf(span) \in {"start", "both"} -> "SendStartSource"
      [] ShapeOf(span) = "end" -> "SendEndSource"
      [] ShapeOf(span) = "blank" -> "SendValue"

\* C22: a span cursor is made in the state its span's markers fix; a key
\* request leaves the state as it is; every value request that is answered
\* moves it to a later state of the order, so that no state is entered
\* twice and Done is reached within seven value requests; in Done the state
\* stays Done and a key request is answered "no more entries".
C22_StatesOnlyForward ==
    /\ [](sd_last = "none" => Unwrap(sd).state = ShapeStart(Unwrap(sd).node.span))
    /\ [][/\ sd_last' = "key" => Unwrap(sd').state = Unwrap(sd).state
          /\ (sd_last' = "value" /\ ~sd_panic') =>
                StateRank(Unwrap(sd').state) > StateRank(Unwrap(sd).state)
          /\ StateRank(Unwrap(sd').state) >= StateRank(Unwrap(sd).state)
          /\ Unwrap(sd).state = "Done" =>
                /\ Unwrap(sd').state = "Done"
                /\ (sd_last' = "key" /\ sd_alt') => sd_log' = Append(sd_log, None)
                /\ sd_last' = "value" => sd_panic']_vars

\* A cursor over a node with both markers stands in Done after its seven
\* values, and has been asked for a key there
C22_Witness ==
    /\ sd # None /\ sd_alt
    /\ ShapeOf(Unwrap(sd).node.span) = "both"
    /\ Unwrap(sd).state = "Done"
    /\ sd_last = "key"
    /\ ~sd_panic

(***************************************************************************)
(* C27: the marker a coordinate state reads is there                       *)
(***************************************************************************)

\* C27: whatever the span's shape and whatever key and value requests were
\* made, a cursor in one of the three start states is over a span with a
\* start marker and a cursor in one of the three end states is over a span
\* with an end marker; a request aborts only in Done, never with "Span
\* missing start" or "Span missing end".
C27_MarkerPresent ==
    sd # None =>
        /\ Unwrap(sd).state \in StartStates => IsSome(Unwrap(sd).node.span.start)
        /\ Unwrap(sd).state \in CoordinateStates \ StartStates =>
              IsSome(Unwrap(sd).node.span.end)
        /\ Unwrap(sd).state \in CoordinateStates =>
              /\ IsSome(SpannedCoordinate(Unwrap(sd).state, Unwrap(sd).node.span))
              /\ ~SpannedNextValueSeed(Unwrap(sd), TUsize, <<>>).res.panic
        /\ sd_panic => Unwrap(sd).state = "Done"

\* A cursor over a span with a start marker only has handed out the three
\* start coordinates by value requests alone and stands before the value
C27_Witness ==
    /\ sd # None
    /\ ShapeOf(Unwrap(sd).node.span) = "start"
    /\ Unwrap(sd).state = "SendValue"
    /\ sd_last = "value"
    /\ ~sd_alt

(***************************************************************************)
(* C23: the span wrapper's visitor against the span cursor                 *)
(***************************************************************************)

\* The errors MarkedNodeVisitor::visit_map raises by itself
VisitMapErrors ==
    {"marked node span start line missing", "marked node span start column missing",
     "marked node span end line missing", "marked node span end column missing",
     "marked node inner value not found"}

\* C23: whatever the shape of a node's span, decoding the node as
\* Spanned<T> never ends in one of the visitor's own errors and never
\* aborts on a value request made in Done; it succeeds with the decoded T
\* as its inner value when T decodes from the node, and fails with the
\* failure of that decode otherwise.
C23_VisitorAcceptsCursor ==
    (IsSome(p2e) /\ pc = "done") =>
        /\ ~Unwrap(p2e).panic
        /\ ~Unwrap(p2e).ok => Unwrap(p2e).err.msg \notin VisitMapErrors
        /\ ty.t = "Spanned" =>
              IF Deserialize(node, ty.elem, <<SegMap(SPANNED_INNER)>>).ok
              THEN /\ Unwrap(p2e).ok
                   /\ Unwrap(p2e).val.inner =
                          Deserialize(node, ty.elem, <<SegMap(SPANNED_INNER)>>).val
              ELSE Unwrap(p2e) = Deserialize(node, ty.elem, <<SegMap(SPANNED_INNER)>>)

\* A scalar whose span has an end marker only was decoded as Spanned<u8>
\* and failed because its text is no u8
C23_Witness ==
    /\ pc = "done" /\ IsSome(p2e)
    /\ ty = TSpanned(TU8)
    /\ node.kind = "Scalar"
    /\ ShapeOf(node.span) = "end"
    /\ ~Unwrap(p2e).ok
    /\ Unwrap(p2e).err.kind = "IntegerParseFailure"

(***************************************************************************)
(* C24: the sequence cursor hands out the items in index order             *)
(***************************************************************************)

\* C24: at any time the position of a sequence cursor lies between 0 and
\* the number of items; the k-th answer is the decode of the item at index
\* k - 1 of the sequence, under the path segment of that index, and has
\* moved the position to k; the answer after the last item is "no more
\* elements"; and a request made with the position at the length is
\* answered "no more elements" and leaves the position where it is.
C24_ElementsInIndexOrder ==
    /\ [](/\ Unwrap(sd).pos \in 0..Len(node.items)
          /\ Unwrap(sd).items = node.items
          /\ Len(sd_log) \in {Unwrap(sd).pos, Unwrap(sd).pos + 1}
          /\ Len(sd_log) = Unwrap(sd).pos + 1 => Unwrap(sd).pos = Len(node.items)
          /\ \A k \in 1..Len(sd_log) :
                sd_log[k] = IF k <= Len(node.items)
                            THEN MapSome(Deserialize(node.items[k], sd_ty, <<SegSeq(k - 1)>>))
                            ELSE Ok(None))
    /\ [][IF Unwrap(sd).pos = Len(node.items)
          THEN /\ Unwrap(sd').pos = Unwrap(sd).pos
               /\ SeqNextElementSeed(Unwrap(sd), sd_ty, <<>>).res = Ok(None)
          ELSE Unwrap(sd').pos = Unwrap(sd).pos + 1]_vars

\* A cursor over a sequence of numerals has answered each of them as a
\* String, the first and the last with different texts, and then answered
\* "no more elements"
C24_Witness ==
    /\ sd # None /\ sd_last = "element"
    /\ Len(node.items) >= 2
    /\ Unwrap(sd).pos = Len(node.items)
    /\ Len(sd_log) = Len(node.items) + 1
    /\ sd_ty = TString
    /\ \A k \in 1..Len(node.items) : sd_log[k].ok
    /\ sd_log[1] # sd_log[Len(node.items)]
    /\ sd_log[Len(sd_log)] = Ok(None)

(***************************************************************************)
(* C25: a key request looks at the entry, a value request takes it         *)
(***************************************************************************)

\* C25: a key request on a mapping cursor leaves the cursor on the entry it
\* stands on and answers with that entry's key scalar alone, so that a key
\* request made next is answered the same, whatever the entry's value is
\* and whether or not it would decode; a value request that is answered
\* takes the cursor past exactly one entry, and its answer is the decode of
\* that entry's value node.
C25_KeyPeeksValueConsumes ==
    [][/\ sd_last' = "key" =>
            /\ Unwrap(sd').at = Unwrap(sd).at
            /\ Unwrap(sd').entries = Unwrap(sd).entries
            /\ MappingNextKeySeed(Unwrap(sd'), TString, <<>>).res =
                   MappingNextKeySeed(Unwrap(sd), TString, <<>>).res
            /\ MappingNextKeySeed(Unwrap(sd), TString, <<>>).res =
                   IF Unwrap(sd).at < Len(node.entries)
                   THEN Ok(Some(VStr(node.entries[Unwrap(sd).at + 1].k.text)))
                   ELSE Ok(None)
       /\ (sd_last' = "value" /\ ~sd_panic') =>
            /\ Unwrap(sd').at = Unwrap(sd).at + 1
            /\ Unwrap(sd').entries = Unwrap(sd).entries
            /\ MappingNextValueSeed(Unwrap(sd), sd_ty, <<>>).res.ok =
                   Deserialize(node.entries[Unwrap(sd).at + 1].v, sd_ty, <<>>).ok]_vars

\* Two key requests have been made in a row on the first entry of a
\* mapping, whose value does not decode as what the caller would ask for;
\* the cursor still stands on that entry
C25_Witness ==
    /\ sd # None /\ sd_last = "key" /\ ~sd_alt
    /\ Len(node.entries) >= 1
    /\ sd_log = <<Ok(Some(VStr(node.entries[1].k.text)))>>
    /\ Unwrap(sd).at = 0
    /\ ~Deserialize(node.entries[1].v, sd_ty, <<>>).ok

(***************************************************************************)
(* C26: the two builds of from_node                                        *)
(***************************************************************************)

\* from_node of the build without path tracking, as a function of the tree
\* and the target type
PlainFromNode(n, t) ==
    IF Deserialize(n, t, <<>>).ok \/ Deserialize(n, t, <<>>).panic
    THEN Deserialize(n, t, <<>>)
    ELSE Fail(Deserialize(n, t, <<>>).err, <<>>)

\* What a returned result and the plain build's result on the same tree
\* and type have in common whichever build returned it: both succeed with
\* equal values, or both fail with errors of the same kind and payload
SameButPathAndSpan(r, plain) ==
    /\ r.ok = plain.ok /\ r.panic = plain.panic
    /\ r.ok => r.val = plain.val
    /\ (~r.ok /\ ~r.panic) => ErrorPayload(r.err) = ErrorPayload(plain.err)

\* C26 as the claim has it: the two builds agree but for the path and for
\* the span of errors raised with a blank span
C26_Original ==
    (pc = "done" /\ IsSome(ret)) =>
        /\ SameButPathAndSpan(Unwrap(ret), PlainFromNode(node, ty))
        /\ (~Unwrap(ret).ok /\ ~Unwrap(ret).panic
            /\ Unwrap(ret).err.span # PlainFromNode(node, ty).err.span) =>
              PlainFromNode(node, ty).err.span = SpanNewBlank

\* C26: for every tree and target type, what from_node returns in either
\* build succeeds exactly when the plain build's from_node does, with an
\* equal value, and fails exactly when it does, with the same error kind
\* and payload; the build without path tracking returns the plain result
\* itself, and the build with it differs from that only in the path and in
\* the span of errors raised without a start marker.
C26_BuildsAgree ==
    (pc = "done" /\ IsSome(ret)) =>
        /\ SameButPathAndSpan(Unwrap(ret), PlainFromNode(node, ty))
        /\ ~serde_path =>
              /\ Unwrap(ret).ok \/ Unwrap(ret).panic \/ Unwrap(ret).path = <<>>
              /\ Unwrap(ret).ok \/ Unwrap(ret).panic
                    \/ Unwrap(ret).err = PlainFromNode(node, ty).err
        /\ (~Unwrap(ret).ok /\ ~Unwrap(ret).panic
            /\ Unwrap(ret).err.span # PlainFromNode(node, ty).err.span) =>
              /\ serde_path
              /\ IsNone(PlainFromNode(node, ty).err.span.start)

\* With path tracking, a numeral that does not parse was returned under a
\* path and with another span than the plain build gives it, the error's
\* kind and payload being the plain build's
C26_Witness ==
    /\ pc = "done" /\ IsSome(ret) /\ serde_path
    /\ ~Unwrap(ret).ok /\ ~Unwrap(ret).panic
    /\ Unwrap(ret).err.kind = "IntegerParseFailure"
    /\ Len(Unwrap(ret).path) >= 1
    /\ Unwrap(ret).err.span # PlainFromNode(node, ty).err.span
    /\ PlainFromNode(node, ty).err.span # SpanNewBlank
    /\ ErrorPayload(Unwrap(ret).err) = ErrorPayload(PlainFromNode(node, ty).err)

(***************************************************************************)
(* C28: the span the backfill sets is a span of the tree                   *)
(***************************************************************************)

\* C28: when the backfill has run on an error, the span the error is
\* returned with is the span of the root or of a node the recorded path
\* leads through from the root, or, for an UnknownFieldError only, the span
\* of a key named as the offending field in the mapping the last resolved
\* node was reached from (the root where nothing resolved); it is never a
\* span of no node or key of the tree.
C28_BackfilledSpanIsOfTheTree ==
    BackfillRan =>
        Unwrap(ret).err.span \in
            {n.span : n \in NodesOnPath(node, Unwrap(ret).path)} \cup
            (IF Unwrap(ret).err.kind = "UnknownFieldError"
             THEN KeySpansNamed(ParentOfDeepest(node, Unwrap(ret).path),
                                Unwrap(ret).err.field)
             ELSE {})

\* An unknown field error raised under a path of two segments, the first
\* of which resolves, has come back with the span of a key of the mapping
\* at the root, which is the span of no node on the path
C28_Witness ==
    /\ BackfillRan
    /\ Unwrap(ret).err.kind = "UnknownFieldError"
    /\ Len(Unwrap(ret).path) = 2
    /\ ResolvedLen(node, Unwrap(ret).path) = 1
    /\ Unwrap(ret).err.span \in KeySpansNamed(node, Unwrap(ret).err.field)
    /\ Unwrap(ret).err.span \notin {n.span : n \in NodesOnPath(node, Unwrap(ret).path)}

====
